---- MODULE Spec2Model ----
(***************************************************************************)
(* InfoPlu MCP server: the request/response translation layer.             *)
(*                                                                         *)
(* Texts are TLA+ strings; Len, \o and SubSeq on them count UTF-16 code    *)
(* units as JavaScript's length, + and slice do.  The non-ASCII           *)
(* characters of the source's messages (the em dash, the accented letters  *)
(* of the French words, the warning sign) are written as the ASCII         *)
(* characters "-", the unaccented letter and "!", and the backtick of the  *)
(* markdown renders as "'": one code unit each, as in the source.          *)
(*                                                                         *)
(* Numbers are integers: the fractional coordinates a caller may send are  *)
(* outside the values the model runs on.                                   *)
(*                                                                         *)
(* JSON values are tagged records (Str, Num, Bool, Null, Undef, Arr, Obj); *)
(* an object is the sequence of its <<key, value>> entries in insertion    *)
(* order, which is the order Object.entries and JSON.stringify use.        *)
(***************************************************************************)
EXTENDS Integers, Sequences, FiniteSets, TLC

VARIABLES
    pc,         \* position of the tool invocation: "idle", "awaiting", "responded", "done"
    tool,       \* name of the invoked tool, "none" when idle
    args,       \* the arguments object the caller sent
    sent,       \* the upstream GET requests this invocation has issued, in order
    outcome,    \* what the upstream answered: [k |-> "none"] until it does
    result,     \* what the caller gets back: [k |-> "none"] until the call ends
    elapsed,    \* milliseconds the awaited request has been in flight
    qParams,    \* serializer run: the mapping under serialization
    qOut,       \* serializer run: [done |-> FALSE], then [done |-> TRUE, query |-> string]
    eFailure,   \* translator run: the value that was thrown
    eOut,       \* translator run: [done |-> FALSE], then [done |-> TRUE, text |-> string]
    pIn,        \* pruner run: [fn |-> function name, raw |-> the upstream value]
    pOut,       \* pruner run: [done |-> FALSE], then [done |-> TRUE, r |-> what the run came to]
    transports, \* HTTP server: every transport created so far, by number
    streamableSessions, \* HTTP server: the map session id -> StreamableHTTP transport
    sseTransports,      \* HTTP server: the map session id -> legacy SSE transport
    served,     \* HTTP server: how the latest request was answered
    calls,      \* concurrent invocations: the state of each, by call number
    client      \* concurrent invocations: the configuration of the shared HTTP client

vars == <<pc, tool, args, sent, outcome, result, elapsed, qParams, qOut, eFailure, eOut,
          pIn, pOut, transports, streamableSessions, sseTransports, served, calls, client>>

callVars == <<pc, tool, args, sent, outcome, result, elapsed>>
qVars == <<qParams, qOut>>
eVars == <<eFailure, eOut>>
pVars == <<pIn, pOut>>
sVars == <<transports, streamableSessions, sseTransports, served>>
cVars == <<calls, client>>

-----------------------------------------------------------------------------
(* JSON values *)

Str(s)  == [t |-> "str", s |-> s]
Num(n)  == [t |-> "num", n |-> n]
Bool(b) == [t |-> "bool", b |-> b]
Null    == [t |-> "null"]
Undef   == [t |-> "undef"]
Arr(xs) == [t |-> "arr", items |-> xs]
Obj(es) == [t |-> "obj", entries |-> es]

IsNullish(v) == v.t \in {"null", "undef"}

\* o.k for an object o: the value of the last entry with key k, undefined
\* when there is none (and for a non-object).
Get(o, k) ==
    IF o.t # "obj" THEN Undef
    ELSE LET idx == {i \in 1..Len(o.entries) : o.entries[i][1] = k}
         IN IF idx = {} THEN Undef
            ELSE o.entries[CHOOSE i \in idx : \A j \in idx : j <= i][2]

HasKey(o, k) == o.t = "obj" /\ \E i \in 1..Len(o.entries) : o.entries[i][1] = k

\* the keys of an object
KeysOf(o) == {o.entries[i][1] : i \in 1..Len(o.entries)}

-----------------------------------------------------------------------------
(* Strings *)

Min(a, b) == IF a < b THEN a ELSE b

\* s.slice(0, n)
Slice(s, n) == SubSeq(s, 1, Min(Len(s), n))

\* the i-th character of s, as a one-character string
CharAt(s, i) == SubSeq(s, i, i)

\* s.includes(p)
Contains(s, p) ==
    \E i \in 1..(Len(s) - Len(p) + 1) : SubSeq(s, i, i + Len(p) - 1) = p

StartsWith(s, p) == Len(s) >= Len(p) /\ SubSeq(s, 1, Len(p)) = p

\* s repeated n times
RECURSIVE Rep(_, _)
Rep(s, n) ==
    IF n = 0 THEN ""
    ELSE IF n % 2 = 0 THEN LET h == Rep(s, n \div 2) IN h \o h
    ELSE s \o Rep(s, n - 1)

\* parts.join(sep)
RECURSIVE Join(_, _)
Join(parts, sep) ==
    IF Len(parts) = 0 THEN ""
    ELSE IF Len(parts) = 1 THEN parts[1]
    ELSE LET m == Len(parts) \div 2
         IN Join(SubSeq(parts, 1, m), sep) \o sep \o Join(SubSeq(parts, m + 1, Len(parts)), sep)

\* the concatenation of f(c) over the characters c of s, by halving so that
\* long strings do not nest deeply
RECURSIVE MapChars(_, _)
MapChars(f(_), s) ==
    IF Len(s) = 0 THEN ""
    ELSE IF Len(s) = 1 THEN f(s)
    ELSE LET m == Len(s) \div 2
         IN MapChars(f, SubSeq(s, 1, m)) \o MapChars(f, SubSeq(s, m + 1, Len(s)))

\* the printable ASCII characters: codes 32..95, and codes 97..126 (code 96,
\* the backtick, cannot be written in a TLA+ string and occurs in no input)
AsciiLow == " !\"#$%&'()*+,-./0123456789:;<=>?@ABCDEFGHIJKLMNOPQRSTUVWXYZ[\\]^_"
AsciiHigh == "abcdefghijklmnopqrstuvwxyz{|}~"
HexDigits == "0123456789ABCDEF"

CharsOf(table) == {SubSeq(table, i, i) : i \in 1..Len(table)}
IndexIn(table, c) == CHOOSE i \in 1..Len(table) : SubSeq(table, i, i) = c

\* the code unit of each printable ASCII character
CharCodes ==
    [c \in CharsOf(AsciiLow) \cup CharsOf(AsciiHigh) |->
        IF c \in CharsOf(AsciiLow) THEN 31 + IndexIn(AsciiLow, c)
        ELSE 96 + IndexIn(AsciiHigh, c)]

CharCode(c) == CharCodes[c]

CharOfCode(n) ==
    IF n <= 31 + Len(AsciiLow) THEN CharAt(AsciiLow, n - 31)
    ELSE CharAt(AsciiHigh, n - 96)

HexValues == [h \in CharsOf(HexDigits) |-> IndexIn(HexDigits, h) - 1]

HexValue(h) == HexValues[h]

\* String(v), which is also what a template literal ${v} inserts
RECURSIVE ToStr(_)
ToStr(v) ==
    CASE v.t = "str"   -> v.s
      [] v.t = "num"   -> ToString(v.n)
      [] v.t = "bool"  -> IF v.b THEN "true" ELSE "false"
      [] v.t = "null"  -> "null"
      [] v.t = "undef" -> "undefined"
      [] v.t = "obj"   -> "[object Object]"
      [] v.t = "arr"   ->
            Join([i \in 1..Len(v.items) |->
                    IF IsNullish(v.items[i]) THEN "" ELSE ToStr(v.items[i])], ",")

\* JavaScript truthiness
Truthy(v) ==
    CASE v.t = "str"   -> v.s # ""
      [] v.t = "num"   -> v.n # 0
      [] v.t = "bool"  -> v.b
      [] v.t = "null"  -> FALSE
      [] v.t = "undef" -> FALSE
      [] OTHER         -> TRUE

-----------------------------------------------------------------------------
(* Query Serializer *)

\* characters encodeURIComponent leaves alone
Unreserved == "ABCDEFGHIJKLMNOPQRSTUVWXYZabcdefghijklmnopqrstuvwxyz0123456789-_.!~*'()"

UnreservedChars == CharsOf(Unreserved)

IsUnreserved(c) == c \in UnreservedChars

\* what encodeURI leaves alone besides the unreserved characters
URIReserved == ";/?:@&=+$,#"

\* PercentEncodeChar as encodeURI would do it
PercentEncodeCharURI(c) ==
    IF IsUnreserved(c) \/ c \in CharsOf(URIReserved) THEN c
    ELSE "%" \o CharAt(HexDigits, (CharCode(c) \div 16) + 1)
             \o CharAt(HexDigits, (CharCode(c) % 16) + 1)

PercentEncodeChar(c) ==
    IF IsUnreserved(c) THEN c
    ELSE "%" \o CharAt(HexDigits, (CharCode(c) \div 16) + 1)
             \o CharAt(HexDigits, (CharCode(c) % 16) + 1)

encodeURIComponent(s) == MapChars(PercentEncodeChar, s)

\* EntryParts with arrays joined by commas under the bare key
EntryPartsCommaJoined(key, val) ==
    IF IsNullish(val) THEN <<>>
    ELSE <<encodeURIComponent(key) \o "=" \o encodeURIComponent(ToStr(val))>>

\* EntryParts skipping every falsy value (`if (!val) continue`)
EntryPartsSkipFalsy(key, val) ==
    IF ~Truthy(val) THEN <<>>
    ELSE IF val.t = "arr"
         THEN [i \in 1..Len(val.items) |->
                 encodeURIComponent(key) \o "[]=" \o encodeURIComponent(ToStr(val.items[i]))]
         ELSE <<encodeURIComponent(key) \o "=" \o encodeURIComponent(ToStr(val))>>

\* the parts one entry of the mapping pushes
EntryParts(key, val) ==
    IF IsNullish(val) THEN <<>>
    ELSE IF val.t = "arr"
         THEN [i \in 1..Len(val.items) |->
                 encodeURIComponent(key) \o "[]=" \o encodeURIComponent(ToStr(val.items[i]))]
         ELSE <<encodeURIComponent(key) \o "=" \o encodeURIComponent(ToStr(val))>>

RECURSIVE SerializeParts(_)
SerializeParts(entries) ==
    IF entries = <<>> THEN <<>>
    ELSE EntryParts(entries[1][1], entries[1][2]) \o SerializeParts(Tail(entries))

\* params is the sequence of the mapping's entries, in Object.entries order
serializeParams(params) == Join(SerializeParts(params), "&")

-----------------------------------------------------------------------------
(* Error Translator *)

NoResponse == [t |-> "none"]

\* an AxiosError; response is NoResponse or [status, data, statusText]
AxiosError(code, message, response) ==
    [cls |-> "AxiosError", code |-> code, message |-> message, response |-> response]

Response(status, data, statusText) ==
    [t |-> "response", status |-> status, data |-> data, statusText |-> statusText]

\* any other Error (a TypeError of the handler's own code, ...)
PlainError(message) == [cls |-> "Error", message |-> message]

\* a thrown value that is no Error
ThrownValue(v) == [cls |-> "value", v |-> v]

\* error.response.data?.message ?? error.response.statusText ?? ""
ResponseMsg(response) ==
    LET m == IF IsNullish(response.data) THEN Undef ELSE Get(response.data, "message")
    IN IF ~IsNullish(m) THEN m
       ELSE IF ~IsNullish(response.statusText) THEN response.statusText
       ELSE Str("")

\* a switch without the 404 and 429 arms
ResponseErrorTextNoArms(status, msg) ==
    CASE status = 400 ->
            "Error: Invalid request parameters - " \o ToStr(msg)
                \o ". Check your input values and try again."
      [] status \in {500, 502, 503} ->
            "Error: The Geoportail de l'Urbanisme API is temporarily unavailable (status "
                \o ToString(status) \o "). Try again later."
      [] OTHER ->
            "Error: API request failed with status " \o ToString(status) \o ". " \o ToStr(msg)

\* a switch whose unavailable arm takes 500 only and reports the body's message
ResponseErrorTextOnly500(status, msg) ==
    CASE status = 400 ->
            "Error: Invalid request parameters - " \o ToStr(msg)
                \o ". Check your input values and try again."
      [] status = 404 ->
            "Error: Resource not found. The requested document or territory does not exist. Use a search tool to find valid IDs."
      [] status = 429 ->
            "Error: Rate limit exceeded. Please wait a moment before making more requests."
      [] status = 500 ->
            "Error: The Geoportail de l'Urbanisme API is temporarily unavailable (status "
                \o ToString(status) \o "). Try again later."
      [] OTHER ->
            "Error: API request failed with status " \o ToString(status) \o ". " \o ToStr(msg)

\* the switch on error.response.status
ResponseErrorText(status, msg) ==
    CASE status = 400 ->
            "Error: Invalid request parameters - " \o ToStr(msg)
                \o ". Check your input values and try again."
      [] status = 404 ->
            "Error: Resource not found. The requested document or territory does not exist. Use a search tool to find valid IDs."
      [] status = 429 ->
            "Error: Rate limit exceeded. Please wait a moment before making more requests."
      [] status \in {500, 502, 503} ->
            "Error: The Geoportail de l'Urbanisme API is temporarily unavailable (status "
                \o ToString(status) \o "). Try again later."
      [] OTHER ->
            "Error: API request failed with status " \o ToString(status) \o ". " \o ToStr(msg)

\* FallbackErrorText without the prefix
FallbackErrorTextBare(error) ==
    IF error.cls = "value" THEN ToStr(error.v) ELSE error.message

\* the last line: Error: ${error instanceof Error ? error.message : String(error)}
FallbackErrorText(error) ==
    "Error: " \o (IF error.cls = "value" THEN ToStr(error.v) ELSE error.message)

TimeoutText == "Error: Request timed out. The API is slow to respond - try again."

UnreachableText ==
    "Error: Cannot reach the Geoportail de l'Urbanisme API. Check your network connection or the API_BASE_URL environment variable."

\* a translator that looks at the transport code before the response
handleApiErrorCodeFirst(error) ==
    IF error.cls = "AxiosError" /\ error.code = "ECONNABORTED" THEN TimeoutText
    ELSE IF error.cls = "AxiosError" /\ error.code \in {"ECONNREFUSED", "ENOTFOUND"}
    THEN UnreachableText
    ELSE IF error.cls = "AxiosError" /\ error.response # NoResponse
    THEN ResponseErrorText(error.response.status, ResponseMsg(error.response))
    ELSE FallbackErrorText(error)

\* a translator that knows the timeout by the code ETIMEDOUT
handleApiErrorClarifiedTimeout(error) ==
    IF error.cls = "AxiosError" /\ error.response # NoResponse
    THEN ResponseErrorText(error.response.status, ResponseMsg(error.response))
    ELSE IF error.cls = "AxiosError" /\ error.code = "ETIMEDOUT" THEN TimeoutText
    ELSE IF error.cls = "AxiosError" /\ error.code \in {"ECONNREFUSED", "ENOTFOUND"}
    THEN UnreachableText
    ELSE FallbackErrorText(error)

handleApiError(error) ==
    IF error.cls = "AxiosError" /\ error.response # NoResponse
    THEN ResponseErrorText(error.response.status, ResponseMsg(error.response))
    ELSE IF error.cls = "AxiosError" /\ error.code = "ECONNABORTED" THEN TimeoutText
    ELSE IF error.cls = "AxiosError" /\ error.code \in {"ECONNREFUSED", "ENOTFOUND"}
    THEN UnreachableText
    ELSE FallbackErrorText(error)

-----------------------------------------------------------------------------
(* JSON.stringify *)

JSONEscapeChar(c) ==
    CASE c = "\"" -> "\\\""
      [] c = "\\" -> "\\\\"
      [] c = "\n" -> "\\n"
      [] c = "\r" -> "\\r"
      [] c = "\t" -> "\\t"
      [] c = "\f" -> "\\f"
      [] OTHER    -> c

JSONQuote(s) == "\"" \o MapChars(JSONEscapeChar, s) \o "\""

IsDefined(entry) == entry[2].t # "undef"

\* JSON.stringify(v, null, gap) at indentation ind; gap is "" or "  "
RECURSIVE Stringify(_, _, _)
Stringify(v, gap, ind) ==
    LET inner == ind \o gap
        open == IF gap = "" THEN "" ELSE "\n" \o inner
        sep == IF gap = "" THEN "," ELSE ",\n" \o inner
        close == IF gap = "" THEN "" ELSE "\n" \o ind
        colon == IF gap = "" THEN ":" ELSE ": "
    IN CASE v.t = "str"   -> JSONQuote(v.s)
         [] v.t = "num"   -> ToString(v.n)
         [] v.t = "bool"  -> IF v.b THEN "true" ELSE "false"
         [] v.t = "null"  -> "null"
         [] v.t = "undef" -> "null"
         [] v.t = "arr"   ->
               IF v.items = <<>> THEN "[]"
               ELSE "[" \o open
                    \o Join([i \in 1..Len(v.items) |-> Stringify(v.items[i], gap, inner)], sep)
                    \o close \o "]"
         [] v.t = "obj"   ->
               LET es == SelectSeq(v.entries, IsDefined)
               IN IF es = <<>> THEN "{}"
                  ELSE "{" \o open
                       \o Join([i \in 1..Len(es) |->
                                  JSONQuote(es[i][1]) \o colon \o Stringify(es[i][2], gap, inner)], sep)
                       \o close \o "}"

\* JSON.stringify(v, null, 2)
JSONPretty(v) == Stringify(v, "  ", "")

\* JSON.stringify(v)
JSONCompact(v) == Stringify(v, "", "")

-----------------------------------------------------------------------------
(* Input contracts: the zod schemas the tools are registered with *)

StringField(name, required, minLen, pattern) ==
    [name |-> name, kind |-> "string", required |-> required, hasDefault |-> FALSE,
     minLen |-> minLen, pattern |-> pattern]

\* z.number().int().min(min).max(max).default(dflt); max = -1 stands for no max
IntField(name, min, max, dflt) ==
    [name |-> name, kind |-> "int", required |-> FALSE, hasDefault |-> TRUE,
     dflt |-> Num(dflt), min |-> min, max |-> max]

\* z.number().min(min).max(max), required
NumberField(name, min, max) ==
    [name |-> name, kind |-> "number", required |-> TRUE, hasDefault |-> FALSE,
     min |-> min, max |-> max]

BooleanField(name) ==
    [name |-> name, kind |-> "boolean", required |-> FALSE, hasDefault |-> FALSE]

EnumField(name, values) ==
    [name |-> name, kind |-> "enum", required |-> FALSE, hasDefault |-> FALSE,
     values |-> values]

EnumArrayField(name, values) ==
    [name |-> name, kind |-> "enumArray", required |-> FALSE, hasDefault |-> FALSE,
     values |-> values]

\* response_format: z.enum(["markdown", "json"]).default("markdown")
ResponseFormatField ==
    [name |-> "response_format", kind |-> "enum", required |-> FALSE, hasDefault |-> TRUE,
     dflt |-> Str("markdown"), values |-> {"markdown", "json"}]

AllCharsIn(s, chars) == \A i \in 1..Len(s) : CharAt(s, i) \in chars

Digits == CharsOf("0123456789")
HexLower == CharsOf("abcdef0123456789")
WordChars == CharsOf("ABCDEFGHIJKLMNOPQRSTUVWXYZabcdefghijklmnopqrstuvwxyz0123456789_")

\* schemas whose document id is checked for its length only
MatchesLengthOnly(pattern, s) ==
    CASE pattern = "hex32" -> Len(s) = 32
      [] OTHER -> TRUE

\* the regular expressions of the schemas
Matches(pattern, s) ==
    CASE pattern = "none"  -> TRUE
      [] pattern = "date8" -> Len(s) = 8 /\ AllCharsIn(s, Digits)                \* /^\d{8}$/
      [] pattern = "hex32" -> Len(s) = 32 /\ AllCharsIn(s, HexLower)             \* .length(32), /^[a-f0-9]{32}$/
      [] pattern = "cnig"  ->                                                   \* /^cnig_\w+_\d{4}$/
            /\ Len(s) >= 11
            /\ StartsWith(s, "cnig_")
            /\ AllCharsIn(SubSeq(s, 6, Len(s) - 5), WordChars)
            /\ CharAt(s, Len(s) - 4) = "_"
            /\ AllCharsIn(SubSeq(s, Len(s) - 3, Len(s)), Digits)

\* one field of a schema accepts the value v (undefined when the key is absent)
FieldOk(f, v) ==
    IF v.t = "undef" THEN ~f.required
    ELSE CASE f.kind = "string"    -> v.t = "str" /\ Len(v.s) >= f.minLen /\ Matches(f.pattern, v.s)
           [] f.kind = "int"       -> v.t = "num" /\ v.n >= f.min /\ (f.max >= 0 => v.n <= f.max)
           [] f.kind = "number"    -> v.t = "num" /\ v.n >= f.min /\ v.n <= f.max
           [] f.kind = "boolean"   -> v.t = "bool"
           [] f.kind = "enum"      -> v.t = "str" /\ v.s \in f.values
           [] f.kind = "enumArray" ->
                 /\ v.t = "arr"
                 /\ \A i \in 1..Len(v.items) : v.items[i].t = "str" /\ v.items[i].s \in f.values

FieldNames(schema) == {schema[i].name : i \in 1..Len(schema)}

\* z.object({...}).strict(): every field accepts its value and no other key is present
Conforms(schema, a) ==
    /\ a.t = "obj"
    /\ \A i \in 1..Len(a.entries) : a.entries[i][1] \in FieldNames(schema)
    /\ \A i \in 1..Len(schema) : FieldOk(schema[i], Get(a, schema[i].name))

\* the parsed parameters the handler receives: defaults filled in
ParseArgs(schema, a) ==
    [n \in FieldNames(schema) |->
        LET f == schema[CHOOSE i \in 1..Len(schema) : schema[i].name = n]
            v == Get(a, n)
        IN IF v.t = "undef" /\ f.hasDefault THEN f.dflt ELSE v]

-----------------------------------------------------------------------------
(* What a handler's body comes to *)

CHARACTER_LIMIT == 25000

Text(s) == [k |-> "text", text |-> s]

\* a rendering of the upstream data, before any cut
Rendered(s) == [k |-> "render", text |-> s]

\* return { content: [{ type: "text", text: render.slice(0, CHARACTER_LIMIT) }] }
Sliced(body) == IF body.k = "render" THEN Text(Slice(body.text, CHARACTER_LIMIT)) ELSE body

\* return { content: [{ type: "text", text: render }] }
Unsliced(body) == IF body.k = "render" THEN Text(body.text) ELSE body

\* an exception raised inside the handler's try block
Throw(error) == [k |-> "throw", error |-> error]

\* the TypeError the handler's own code raises on a body of the wrong shape
\* (the messages are those of V8)
TypeError(message) == Throw(PlainError(message))

\* what reading a property of, or destructuring, null or undefined raises
ReadOfNullish(v, prop) ==
    TypeError("Cannot read properties of " \o ToStr(v) \o " (reading '" \o prop \o "')")

IsJson(p) == p["response_format"] = Str("json")

\* `${o.k}`
F(o, k) == ToStr(Get(o, k))

\* the lines of every element of xs, one after the other
RECURSIVE FlatLines(_, _)
FlatLines(lines(_), xs) ==
    IF Len(xs) = 0 THEN <<>>
    ELSE IF Len(xs) = 1 THEN lines(xs[1])
    ELSE LET m == Len(xs) \div 2
         IN FlatLines(lines, SubSeq(xs, 1, m)) \o FlatLines(lines, SubSeq(xs, m + 1, Len(xs)))

HasNullish(xs) == \E i \in 1..Len(xs) : IsNullish(xs[i])

FirstNullish(xs) == xs[CHOOSE i \in 1..Len(xs) : IsNullish(xs[i])]

\* a ?? b
Coalesce(a, b) == IF IsNullish(a) THEN b ELSE a

\* v.length
LengthOf(v) ==
    CASE v.t = "arr" -> Num(Len(v.items))
      [] v.t = "str" -> Num(Len(v.s))
      [] OTHER       -> Get(v, "length")

\* typeof v === "object", for a v that is not null
IsObjectType(v) == v.t \in {"obj", "arr"}

\* o with the value of its key k replaced
WithKey(o, k, v) ==
    Obj([i \in 1..Len(o.entries) |->
            IF o.entries[i][1] = k THEN <<k, v>> ELSE o.entries[i]])

\* { ...raw } of an array: an object keyed by the indexes
IndexEntries(xs) == [i \in 1..Len(xs) |-> <<ToString(i - 1), xs[i]>>]

OwnEntries(raw) == IF raw.t = "arr" THEN IndexEntries(raw.items) ELSE raw.entries

\* const { key, ...rest } = raw
RestWithout(raw, key) ==
    LET Keep(e) == e[1] # key
    IN Obj(SelectSeq(OwnEntries(raw), Keep))

DestructureOfNullish(v, key) ==
    TypeError("Cannot destructure property '" \o key \o "' of 'raw' as it is " \o ToStr(v) \o ".")

-----------------------------------------------------------------------------
(* Territory tools (grids.ts) *)

\* a prune that keeps the fields the markdown rendering reads, and nothing else
pruneGridKnownFields(raw) ==
    LET Keep(e) == e[1] \in {"name", "title", "type", "rnu"}
    IN Obj(SelectSeq(OwnEntries(raw), Keep))

pruneGrid(raw) == RestWithout(raw, "geometry")

gridToMarkdown(g) ==
    <<"- **Type**: " \o F(g, "type")>>
    \o (IF Get(g, "rnu") = Bool(TRUE)
        THEN <<"- **RNU**: Yes - no approved urban planning document (national default rules apply)">>
        ELSE <<>>)
    \o (IF Get(g, "coastline") = Bool(TRUE) THEN <<"- **Coastal territory**: Yes">> ELSE <<>>)
    \o (IF Get(g, "approved").t # "undef"
        THEN <<"- **Approved SCoT**: " \o (IF Truthy(Get(g, "approved")) THEN "Yes" ELSE "No")>>
        ELSE <<>>)

GridFields == Arr(<<Str("name"), Str("title"), Str("type"), Str("rnu"), Str("approved"), Str("coastline")>>)

\* raw.map(pruneGrid), or the TypeError it raises
MapPruneGrid(varName, raw) ==
    IF IsNullish(raw) THEN ReadOfNullish(raw, "map")
    ELSE IF raw.t # "arr" THEN TypeError(varName \o ".map is not a function")
    ELSE IF HasNullish(raw.items) THEN DestructureOfNullish(FirstNullish(raw.items), "geometry")
    ELSE [k |-> "value", v |-> Arr([i \in 1..Len(raw.items) |-> pruneGrid(raw.items[i])])]

infoplu_search_grids_Schema ==
    << StringField("name", FALSE, 0, "none"),
       StringField("title", FALSE, 0, "none"),
       EnumArrayField("type", {"state", "region", "departement", "municipality", "epci", "scot"}),
       BooleanField("rnu"),
       BooleanField("approved"),
       IntField("limit", 1, 100, 20),
       IntField("offset", 0, -1, 0),
       ResponseFormatField >>

\* a mapping built with every key, the value undefined when cond fails
OptAlways(cond, key, value) == <<<<key, IF cond THEN value ELSE Undef>>>>

\* the entry key: value when cond holds
Opt(cond, key, value) == IF cond THEN <<<<key, value>>>> ELSE <<>>

infoplu_search_grids_Request(p) ==
    [path |-> "/grid/",
     hasParams |-> TRUE,
     params |->
        << <<"_limit", p["limit"]>>, <<"_offset", p["offset"]>>, <<"_fields", GridFields>> >>
        \o Opt(Truthy(p["name"]), "name", p["name"])
        \o Opt(Truthy(p["title"]), "title", p["title"])
        \o Opt(p["type"].t = "arr" /\ Len(p["type"].items) # 0, "type", p["type"])
        \o Opt(p["rnu"].t # "undef", "rnu", p["rnu"])
        \o Opt(p["approved"].t # "undef", "approved", p["approved"])]

SearchGridLines(g) ==
    <<"## " \o F(g, "title") \o " (" \o F(g, "name") \o ")">> \o gridToMarkdown(g) \o <<"">>

\* the text before .slice(0, CHARACTER_LIMIT)
infoplu_search_grids_Render(p, pruned) ==
    IF IsJson(p)
    THEN JSONPretty(Obj(<< <<"count", Num(Len(pruned.items))>>, <<"grids", pruned>> >>))
    ELSE Join(<<"# Administrative Territories - " \o ToString(Len(pruned.items)) \o " result(s)", "">>
              \o FlatLines(SearchGridLines, pruned.items), "\n")

infoplu_search_grids_Body(p, grids) ==
    LET mapped == MapPruneGrid("grids", grids)
    IN IF mapped.k = "throw" THEN mapped
       ELSE IF Len(mapped.v.items) = 0
       THEN Text("No territories found. Try using the INSEE code (e.g., \"69123\" for Lyon 3e), or search by title (e.g., \"Lyon\").")
       ELSE Rendered(infoplu_search_grids_Render(p, mapped.v))

infoplu_search_grids(p, grids) == Sliced(infoplu_search_grids_Body(p, grids))

GridNameSchema ==
    << StringField("gridName", TRUE, 1, "none"), ResponseFormatField >>

infoplu_get_grid_Schema == GridNameSchema

infoplu_get_grid_Request(p) ==
    [path |-> "/grid/" \o ToStr(p["gridName"]),
     hasParams |-> TRUE,
     params |-> << <<"_fields", GridFields>> >>]

infoplu_get_grid_Render(p, g) ==
    IF IsJson(p) THEN JSONPretty(g)
    ELSE Join(<<"# " \o F(g, "title") \o " (" \o F(g, "name") \o ")", "">> \o gridToMarkdown(g), "\n")

infoplu_get_grid_Body(p, raw) ==
    IF IsNullish(raw) THEN DestructureOfNullish(raw, "geometry")
    ELSE Rendered(infoplu_get_grid_Render(p, pruneGrid(raw)))

infoplu_get_grid(p, raw) == Unsliced(infoplu_get_grid_Body(p, raw))

infoplu_get_grid_parents_Schema == GridNameSchema

infoplu_get_grid_parents_Request(p) ==
    [path |-> "/grid/" \o ToStr(p["gridName"]) \o "/parents", hasParams |-> FALSE, params |-> <<>>]

ParentLine(g) ==
    <<"- **" \o F(g, "title") \o "** ('" \o F(g, "name") \o "') - " \o F(g, "type")
        \o (IF Truthy(Get(g, "rnu")) THEN " | RNU" ELSE "")>>

infoplu_get_grid_parents_Render(p, pruned) ==
    IF IsJson(p) THEN JSONPretty(pruned)
    ELSE Join(<<"# Parent Territories of " \o ToStr(p["gridName"]), "">>
              \o FlatLines(ParentLine, pruned.items), "\n")

infoplu_get_grid_parents_Body(p, raw) ==
    LET mapped == MapPruneGrid("raw", raw)
    IN IF mapped.k = "throw" THEN mapped
       ELSE IF Len(mapped.v.items) = 0
       THEN Text("No parent territories found for \"" \o ToStr(p["gridName"])
                 \o "\". This territory may be at the top of the administrative hierarchy.")
       ELSE Rendered(infoplu_get_grid_parents_Render(p, mapped.v))

infoplu_get_grid_parents(p, raw) == Unsliced(infoplu_get_grid_parents_Body(p, raw))

infoplu_get_grid_children_Schema == GridNameSchema

infoplu_get_grid_children_Request(p) ==
    [path |-> "/grid/" \o ToStr(p["gridName"]) \o "/children", hasParams |-> FALSE, params |-> <<>>]

\* the warning sign of the source is one UTF-16 code unit; it is written "!"
ChildLine(g) ==
    <<"- **" \o F(g, "title") \o "** ('" \o F(g, "name") \o "') - " \o F(g, "type")
        \o (IF Truthy(Get(g, "rnu")) THEN " | ! RNU" ELSE "")>>

infoplu_get_grid_children_Render(p, pruned) ==
    IF IsJson(p)
    THEN JSONPretty(Obj(<< <<"count", Num(Len(pruned.items))>>, <<"children", pruned>> >>))
    ELSE Join(<<"# Child Territories of " \o ToStr(p["gridName"]) \o " - "
                  \o ToString(Len(pruned.items)) \o " result(s)", "">>
              \o FlatLines(ChildLine, pruned.items), "\n")

infoplu_get_grid_children_Body(p, raw) ==
    LET mapped == MapPruneGrid("raw", raw)
    IN IF mapped.k = "throw" THEN mapped
       ELSE IF Len(mapped.v.items) = 0
       THEN Text("No child territories found for \"" \o ToStr(p["gridName"]) \o "\".")
       ELSE Rendered(infoplu_get_grid_children_Render(p, mapped.v))

infoplu_get_grid_children(p, raw) == Sliced(infoplu_get_grid_children_Body(p, raw))

-----------------------------------------------------------------------------
(* Document tools (documents.ts) *)

\* a prune that stops at the top level of the document
pruneDocShallow(raw) == RestWithout(raw, "bbox")

pruneDoc(raw) ==
    LET doc == RestWithout(raw, "bbox")
        grid == Get(doc, "grid")
    IN IF Truthy(grid) /\ IsObjectType(grid)
       THEN WithKey(doc, "grid", RestWithout(grid, "geometry"))
       ELSE doc

infoplu_search_documents_Schema ==
    << EnumArrayField("documentFamily", {"DU", "PSMV", "SUP", "SCoT"}),
       EnumArrayField("documentType", {"POS", "CC", "PLU", "PLUi", "PSMV", "SUP", "SCoT"}),
       StringField("partition", FALSE, 0, "none"),
       EnumField("legalStatus", {"APPROVED", "PENDING", "REJECTED", "UNKNOWN"}),
       StringField("uploadedAfter", FALSE, 0, "date8"),
       IntField("page", 0, -1, 0),
       IntField("limit", 1, 100, 20),
       ResponseFormatField >>

\* a test that lets an empty array through
AnyArr(v) == v.t = "arr"

\* params.x?.length
NonEmptyArr(v) == v.t = "arr" /\ Len(v.items) # 0

infoplu_search_documents_Request(p) ==
    [path |-> "/document",
     hasParams |-> TRUE,
     params |->
        << <<"page", p["page"]>>, <<"limit", p["limit"]>> >>
        \o Opt(NonEmptyArr(p["documentFamily"]), "documentFamily", p["documentFamily"])
        \o Opt(NonEmptyArr(p["documentType"]), "documentType", p["documentType"])
        \o Opt(Truthy(p["partition"]), "partition", p["partition"])
        \o Opt(Truthy(p["legalStatus"]), "legalStatus", p["legalStatus"])
        \o Opt(Truthy(p["uploadedAfter"]), "uploadedAfter", p["uploadedAfter"])]

TerritoryLine(doc) ==
    LET g == Get(doc, "grid")
    IN IF Truthy(g) /\ IsObjectType(g)
       THEN <<"- **Territory**: " \o F(g, "title") \o " (" \o F(g, "name") \o ") - " \o F(g, "type")>>
       ELSE <<>>

SearchDocumentLines(doc) ==
    << "## " \o ToStr(Coalesce(Get(doc, "originalName"), Coalesce(Get(doc, "name"), Get(doc, "id")))),
       "- **ID**: '" \o F(doc, "id") \o "'",
       "- **Type**: " \o F(doc, "type"),
       "- **Legal status**: " \o F(doc, "legalStatus"),
       "- **Processing status**: " \o F(doc, "status") >>
    \o TerritoryLine(doc)
    \o <<"- **Uploaded**: " \o F(doc, "uploadDate") \o "  |  **Updated**: " \o F(doc, "updateDate")>>
    \o (IF Truthy(Get(doc, "fileIdentifier"))
        THEN <<"- **File identifier**: " \o F(doc, "fileIdentifier")>> ELSE <<>>)
    \o <<"">>

infoplu_search_documents_Render(p, pruned) ==
    IF IsJson(p)
    THEN JSONPretty(Obj(<< <<"count", Num(Len(pruned.items))>>, <<"documents", pruned>> >>))
    ELSE Join(<<"# Documents d'Urbanisme - " \o ToString(Len(pruned.items)) \o " result(s)", "">>
              \o FlatLines(SearchDocumentLines, pruned.items), "\n")

infoplu_search_documents_Body(p, docs) ==
    IF IsNullish(docs) THEN ReadOfNullish(docs, "length")
    ELSE IF ~Truthy(LengthOf(docs))
    THEN Text("No documents found matching the given filters. Try removing legalStatus, changing documentType, or searching by territory with infoplu_search_grids first.")
    ELSE IF docs.t # "arr" THEN TypeError("docs.map is not a function")
    ELSE IF HasNullish(docs.items) THEN DestructureOfNullish(FirstNullish(docs.items), "bbox")
    ELSE Rendered(infoplu_search_documents_Render(
                    p, Arr([i \in 1..Len(docs.items) |-> pruneDoc(docs.items[i])])))

infoplu_search_documents(p, docs) == Sliced(infoplu_search_documents_Body(p, docs))

DocumentIdSchema == << StringField("documentId", TRUE, 0, "hex32") >>

infoplu_get_document_details_Schema == DocumentIdSchema \o <<ResponseFormatField>>

infoplu_get_document_details_Request(p) ==
    [path |-> "/document/" \o ToStr(p["documentId"]) \o "/details", hasParams |-> FALSE, params |-> <<>>]

FileLine(f) ==
    <<"- **" \o ToStr(Coalesce(Get(f, "title"), Get(f, "name"))) \o "** - '" \o F(f, "path") \o "'">>

MaterialLine(e) == <<"- **" \o e[1] \o "**: " \o ToStr(e[2])>>

LineIf(cond, line) == IF cond THEN <<line>> ELSE <<>>

DocumentDetailLines(doc) ==
    << "# " \o ToStr(Coalesce(Get(doc, "title"), Coalesce(Get(doc, "originalName"), Get(doc, "id")))),
       "",
       "- **ID**: '" \o F(doc, "id") \o "'",
       "- **Type**: " \o F(doc, "type"),
       "- **Legal status**: " \o F(doc, "legalStatus"),
       "- **Processing status**: " \o F(doc, "status") \o " (since " \o F(doc, "statusDate") \o ")",
       "- **Partition**: " \o F(doc, "name") >>
    \o TerritoryLine(doc)
    \o <<"- **Uploaded**: " \o F(doc, "uploadDate") \o "  |  **Updated**: " \o F(doc, "updateDate")>>
    \o LineIf(Truthy(Get(doc, "producer")), "- **Producer**: " \o F(doc, "producer"))
    \o LineIf(Truthy(Get(doc, "projectionCode")), "- **Projection**: " \o F(doc, "projectionCode"))
    \o LineIf(Truthy(Get(doc, "typeref")), "- **Cadastral reference**: " \o F(doc, "typeref"))
    \o LineIf(Truthy(Get(doc, "archiveUrl")), "- **Archive URL**: " \o F(doc, "archiveUrl"))
    \o LineIf(Get(doc, "protected").t # "undef",
              "- **Download restricted**: " \o (IF Truthy(Get(doc, "protected")) THEN "Yes" ELSE "No"))
    \o LineIf(Truthy(Get(doc, "fileIdentifier")), "- **File identifier**: " \o F(doc, "fileIdentifier"))
    \o (LET files == Get(doc, "files")
        IN IF ~IsNullish(files) /\ Truthy(LengthOf(files))
           THEN <<"", "## Attached Written Pieces (" \o ToStr(LengthOf(files)) \o ")">>
                \o FlatLines(FileLine, files.items)
           ELSE <<>>)
    \o (LET materials == Get(doc, "writingMaterials")
        IN IF Truthy(materials) /\ IsObjectType(materials) /\ Len(OwnEntries(materials)) > 0
           THEN <<"", "## Writing Materials (URLs)">> \o FlatLines(MaterialLine, OwnEntries(materials))
           ELSE <<>>)

\* the files of the document are an array with a nullish element: f.title raises
DetailFilesThrow(doc) ==
    LET files == Get(doc, "files")
    IN files.t = "arr" /\ HasNullish(files.items)

infoplu_get_document_details_Body(p, raw) ==
    IF IsNullish(raw) THEN DestructureOfNullish(raw, "bbox")
    ELSE LET doc == pruneDoc(raw)
         IN IF IsJson(p) THEN Rendered(JSONPretty(doc))
            ELSE IF DetailFilesThrow(doc)
            THEN ReadOfNullish(FirstNullish(Get(doc, "files").items), "title")
            ELSE Rendered(Join(DocumentDetailLines(doc), "\n"))

infoplu_get_document_details(p, raw) == Sliced(infoplu_get_document_details_Body(p, raw))

infoplu_list_document_files_Schema == DocumentIdSchema

infoplu_list_document_files_Request(p) ==
    [path |-> "/document/" \o ToStr(p["documentId"]) \o "/files", hasParams |-> FALSE, params |-> <<>>]

infoplu_list_document_files_Body(p, files) ==
    IF IsNullish(files) THEN ReadOfNullish(files, "length")
    ELSE IF ~Truthy(LengthOf(files))
    THEN Text("No written pieces found for document '" \o ToStr(p["documentId"])
              \o "'. The document may have no attached files or may not be in production status.")
    ELSE IF files.t # "arr" THEN TypeError("files.map is not a function")
    ELSE IF HasNullish(files.items) THEN ReadOfNullish(FirstNullish(files.items), "title")
    ELSE Rendered(Join(<< "# Written Pieces for Document '" \o ToStr(p["documentId"]) \o "'",
                          ToString(Len(files.items)) \o " file(s) attached:",
                          "" >>
                       \o FlatLines(FileLine, files.items), "\n"))

infoplu_list_document_files(p, files) == Unsliced(infoplu_list_document_files_Body(p, files))

-----------------------------------------------------------------------------
(* Procedure tool (procedures.ts) *)

\* the accented capital E of the source's labels is written "E"
PROCEDURE_TYPE_LABELS ==
    [E   |-> "Elaboration (initial creation)",
     R   |-> "Revision (full revision)",
     RA  |-> "Revision allegee (simplified revision)",
     M   |-> "Modification",
     MS  |-> "Modification simplifiee",
     MEC |-> "Mise en compatibilite",
     MAJ |-> "Mise a jour"]

infoplu_search_procedures_Schema ==
    << StringField("gridName", TRUE, 1, "none"),
       EnumField("documentType", {"PLU", "POS", "CC", "PLUi", "PSMV", "SCoT"}),
       EnumField("procedureType", {"E", "R", "RA", "M", "MS", "MEC", "MAJ"}),
       StringField("approbedAfter", FALSE, 0, "date8"),
       IntField("page", 1, -1, 1),
       IntField("limit", 1, 100, 20),
       ResponseFormatField >>

infoplu_search_procedures_Request(p) ==
    [path |-> "/" \o ToStr(p["gridName"]) \o "/procedures",
     hasParams |-> TRUE,
     params |->
        << <<"page", p["page"]>>, <<"limit", p["limit"]>> >>
        \o Opt(Truthy(p["documentType"]), "documentType", p["documentType"])
        \o Opt(Truthy(p["procedureType"]), "procedureType", p["procedureType"])
        \o Opt(Truthy(p["approbedAfter"]), "approbedAfter", p["approbedAfter"])]

\* PROCEDURE_TYPE_LABELS[p.procedureType] ?? p.procedureType
ProcedureTypeLabel(proc) ==
    LET ty == Get(proc, "procedureType")
    IN IF ToStr(ty) \in DOMAIN PROCEDURE_TYPE_LABELS
       THEN PROCEDURE_TYPE_LABELS[ToStr(ty)]
       ELSE ToStr(ty)

ProcedureLines(proc) ==
    << "## " \o F(proc, "name"),
       "- **Document type**: " \o F(proc, "documentType"),
       "- **Document**: " \o F(proc, "documentName"),
       "- **Procedure type**: " \o ProcedureTypeLabel(proc) >>
    \o LineIf(Truthy(Get(proc, "approbationDate")), "- **Approved on**: " \o F(proc, "approbationDate"))
    \o LineIf(Truthy(Get(proc, "grid")),
              "- **Territory**: " \o F(Get(proc, "grid"), "title") \o " (" \o F(Get(proc, "grid"), "name") \o ")")
    \o (LET files == Get(proc, "files")
        IN LineIf(~IsNullish(files) /\ Truthy(LengthOf(files)),
                  "- **Files attached**: " \o ToStr(LengthOf(files))))
    \o <<"">>

\* the procedures go out as the upstream sent them: no prune function is applied
infoplu_search_procedures_Body(p, procedures) ==
    IF IsNullish(procedures) THEN ReadOfNullish(procedures, "length")
    ELSE IF ~Truthy(LengthOf(procedures))
    THEN Text("No procedures found for territory \"" \o ToStr(p["gridName"])
              \o "\" with the given filters. Try removing the documentType or procedureType filter.")
    ELSE IF IsJson(p)
    THEN Rendered(JSONPretty(Obj(<< <<"count", LengthOf(procedures)>>, <<"procedures", procedures>> >>)))
    ELSE IF procedures.t # "arr" THEN TypeError("procedures is not iterable")
    ELSE IF HasNullish(procedures.items) THEN ReadOfNullish(FirstNullish(procedures.items), "name")
    ELSE Rendered(Join(<<"# Procedures for " \o ToStr(p["gridName"]) \o " - "
                           \o ToString(Len(procedures.items)) \o " result(s)", "">>
                       \o FlatLines(ProcedureLines, procedures.items), "\n"))

infoplu_search_procedures(p, procedures) == Sliced(infoplu_search_procedures_Body(p, procedures))

-----------------------------------------------------------------------------
(* Standard tools (standards.ts) *)

\* for (const x of xs) over something that is no array
NotIterable(varName) == TypeError(varName \o " is not iterable")

infoplu_list_document_models_Schema ==
    << EnumField("type", {"PLU", "POS", "CC", "PLUi", "SCoT", "SUP", "PSMV"}),
       BooleanField("abstract"),
       ResponseFormatField >>

infoplu_list_document_models_Request(p) ==
    [path |-> "/standard",
     hasParams |-> TRUE,
     params |->
        Opt(Truthy(p["type"]), "type", p["type"])
        \o Opt(p["abstract"].t # "undef", "abstract", p["abstract"])]

DocumentModelLines(m) ==
    << "## '" \o F(m, "name") \o "'",
       "- **Title**: " \o F(m, "title"),
       "- **Type**: " \o F(m, "type"),
       "- **Abstract**: " \o (IF Truthy(Get(m, "abstract")) THEN "Yes (generic base)" ELSE "No (versioned)") >>
    \o LineIf(Truthy(Get(m, "parent")), "- **Parent**: " \o F(m, "parent"))
    \o LineIf(Truthy(Get(m, "description")), "- **Description**: " \o F(m, "description"))
    \o <<"">>

infoplu_list_document_models_Body(p, models) ==
    IF IsJson(p) THEN Rendered(JSONPretty(models))
    ELSE IF IsNullish(models) THEN ReadOfNullish(models, "length")
    ELSE IF models.t # "arr" THEN NotIterable("models")
    ELSE IF HasNullish(models.items) THEN ReadOfNullish(FirstNullish(models.items), "name")
    ELSE Rendered(Join(<<"# CNIG Document Models - " \o ToString(Len(models.items)) \o " result(s)", "">>
                       \o FlatLines(DocumentModelLines, models.items), "\n"))

infoplu_list_document_models(p, models) == Unsliced(infoplu_list_document_models_Body(p, models))

infoplu_get_document_model_Schema ==
    << StringField("documentModel", TRUE, 0, "cnig"), ResponseFormatField >>

infoplu_get_document_model_Request(p) ==
    [path |-> "/standard/" \o ToStr(p["documentModel"]), hasParams |-> FALSE, params |-> <<>>]

AttributeLine(attr) ==
    <<"| '" \o F(attr, "name") \o "' | " \o F(attr, "type") \o " | "
        \o ToStr(Coalesce(Get(attr, "description"), Get(attr, "title"))) \o " |">>

FeatureTypeLines(ft) ==
    <<"", "### '" \o F(ft, "name") \o "' - " \o F(ft, "title")>>
    \o LineIf(Truthy(Get(ft, "description")), "_" \o F(ft, "description") \o "_")
    \o (LET attrs == Get(ft, "attributes")
        IN IF ~IsNullish(attrs) /\ Truthy(LengthOf(attrs))
           THEN <<"", "| Attribute | Type | Description |", "|-----------|------|-------------|">>
                \o FlatLines(AttributeLine, attrs.items)
           ELSE <<>>)

\* model.featureTypes ?? []
FeatureTypesOf(model) == Coalesce(Get(model, "featureTypes"), Arr(<<>>))

DocumentModelDetailLines(model) ==
    << "# " \o F(model, "name") \o " - " \o F(model, "title"),
       "",
       "- **Type**: " \o F(model, "type"),
       "- **Abstract**: " \o (IF Truthy(Get(model, "abstract")) THEN "Yes" ELSE "No") >>
    \o LineIf(Truthy(Get(model, "parent")), "- **Parent model**: " \o F(model, "parent"))
    \o (IF Truthy(Get(model, "description")) THEN <<"", F(model, "description")>> ELSE <<>>)
    \o <<"", "## Feature Types ("
             \o ToStr(Coalesce(IF IsNullish(Get(model, "featureTypes")) THEN Undef
                               ELSE LengthOf(Get(model, "featureTypes")), Num(0)))
             \o ")">>
    \o FlatLines(FeatureTypeLines, FeatureTypesOf(model).items)

infoplu_get_document_model_Body(p, model) ==
    IF IsJson(p) THEN Rendered(JSONPretty(model))
    ELSE IF IsNullish(model) THEN ReadOfNullish(model, "name")
    ELSE IF FeatureTypesOf(model).t # "arr" THEN NotIterable("(intermediate value)")
    ELSE IF HasNullish(FeatureTypesOf(model).items)
    THEN ReadOfNullish(FirstNullish(FeatureTypesOf(model).items), "name")
    ELSE Rendered(Join(DocumentModelDetailLines(model), "\n"))

infoplu_get_document_model(p, model) == Unsliced(infoplu_get_document_model_Body(p, model))

NoArgsSchema == << ResponseFormatField >>

infoplu_list_sup_categories_Schema == NoArgsSchema

infoplu_list_sup_categories_Request(p) ==
    [path |-> "/standard/sup-categories", hasParams |-> FALSE, params |-> <<>>]

SupCategoryLine(c) ==
    <<"- **" \o F(c, "name") \o "** - " \o F(c, "libelle") \o " *(" \o F(c, "libelleCourt") \o ")*"
        \o (IF Truthy(Get(c, "downloadable")) THEN " '[downloadable]'" ELSE "")>>

infoplu_list_sup_categories_Body(p, categories) ==
    IF IsJson(p) THEN Rendered(JSONPretty(categories))
    ELSE IF IsNullish(categories) THEN ReadOfNullish(categories, "length")
    ELSE IF categories.t # "arr" THEN NotIterable("categories")
    ELSE IF HasNullish(categories.items) THEN ReadOfNullish(FirstNullish(categories.items), "downloadable")
    ELSE Rendered(Join(<<"# SUP Categories - " \o ToString(Len(categories.items)) \o " total", "">>
                       \o FlatLines(SupCategoryLine, categories.items), "\n"))

infoplu_list_sup_categories(p, categories) == Unsliced(infoplu_list_sup_categories_Body(p, categories))

infoplu_list_du_categories_Schema == NoArgsSchema

infoplu_list_du_categories_Request(p) ==
    [path |-> "/standard/du-categories", hasParams |-> FALSE, params |-> <<>>]

\* the keys of byType, in the order of their first category
RECURSIVE TypesInOrder(_)
TypesInOrder(cats) ==
    IF cats = <<>> THEN <<>>
    ELSE LET ty == F(cats[1], "type")
             Other(c) == F(c, "type") # ty
         IN <<ty>> \o TypesInOrder(SelectSeq(Tail(cats), Other))

DuCategoryLine(c) ==
    <<"- **" \o (IF Truthy(Get(c, "sous_code")) THEN F(c, "code") \o "/" \o F(c, "sous_code")
                 ELSE F(c, "code"))
        \o "**: " \o F(c, "libelong")>>

DuCategoryLines(cats) ==
    LET types == TypesInOrder(cats)
        Group(i) ==
            LET OfType(c) == F(c, "type") = types[i]
            IN <<"## " \o types[i]>> \o FlatLines(DuCategoryLine, SelectSeq(cats, OfType)) \o <<"">>
    IN FlatLines(Group, [i \in 1..Len(types) |-> i])

infoplu_list_du_categories_Body(p, categories) ==
    IF IsJson(p) THEN Rendered(JSONPretty(categories))
    ELSE IF IsNullish(categories) \/ categories.t # "arr" THEN NotIterable("categories")
    ELSE IF HasNullish(categories.items) THEN ReadOfNullish(FirstNullish(categories.items), "type")
    ELSE Rendered(Join(<<"# DU Zone Categories - " \o ToString(Len(categories.items)) \o " total", "">>
                       \o DuCategoryLines(categories.items), "\n"))

infoplu_list_du_categories(p, categories) == Unsliced(infoplu_list_du_categories_Body(p, categories))

-----------------------------------------------------------------------------
(* Location tools (feature-info.ts) *)

\* one feature of the pruned collection: id (when the raw feature has one),
\* type and properties, nothing else
\* a prune that copies the id only when it is truthy
PruneFeatureTruthyId(f) ==
    Obj((IF Truthy(Get(f, "id")) THEN << <<"id", Str(F(f, "id"))>> >> ELSE <<>>)
        \o << <<"type", Str("Feature")>>,
              <<"properties", Coalesce(Get(f, "properties"), Obj(<<>>))>> >>)

PruneFeature(f) ==
    Obj((IF Get(f, "id").t # "undef" THEN << <<"id", Str(F(f, "id"))>> >> ELSE <<>>)
        \o << <<"type", Str("Feature")>>,
              <<"properties", Coalesce(Get(f, "properties"), Obj(<<>>))>> >>)

\* Array.isArray(raw.features) ? raw.features : []
RawFeatures(raw) ==
    IF Get(raw, "features").t = "arr" THEN Get(raw, "features").items ELSE <<>>

\* a prune that passes the upstream's own totalFeatures on when there is one
pruneFeatureCollectionUpstreamTotal(raw) ==
    LET features == [i \in 1..Len(RawFeatures(raw)) |-> PruneFeature(RawFeatures(raw)[i])]
    IN Obj(<< <<"type", Str("FeatureCollection")>>,
              <<"totalFeatures", Coalesce(Get(raw, "totalFeatures"), Num(Len(features)))>>,
              <<"features", Arr(features)>> >>)

pruneFeatureCollection(raw) ==
    LET features == [i \in 1..Len(RawFeatures(raw)) |-> PruneFeature(RawFeatures(raw)[i])]
    IN Obj(<< <<"type", Str("FeatureCollection")>>,
              <<"totalFeatures", Num(Len(features))>>,
              <<"features", Arr(features)>> >>)

\* what pruneFeatureCollection raises instead of returning
PruneFeatureCollectionThrows(raw) ==
    IsNullish(raw) \/ HasNullish(RawFeatures(raw))

PruneFeatureCollectionError(raw) ==
    IF IsNullish(raw) THEN ReadOfNullish(raw, "features")
    ELSE ReadOfNullish(FirstNullish(RawFeatures(raw)), "id")

PropertyLine(e) ==
    IF IsNullish(e[2]) \/ e[2] = Str("") THEN <<>>
    ELSE <<"- **" \o e[1] \o "**: "
            \o (IF IsObjectType(e[2]) THEN JSONCompact(e[2]) ELSE ToStr(e[2]))>>

\* a rendering with no case of its own for the empty collection
formatCollectionMarkdownCountOnly(collection, title) ==
    Join(<<"# " \o title, "", F(collection, "totalFeatures") \o " feature(s) found:", "">>,
         "\n")

formatCollectionMarkdown(collection, title) ==
    LET features == Get(collection, "features").items
        FeatureLines(i) ==
            LET f == features[i]
                header == IF Truthy(Get(f, "id"))
                          THEN "Feature " \o ToString(i) \o " (id: " \o F(f, "id") \o ")"
                          ELSE "Feature " \o ToString(i)
            IN <<"## " \o header>>
               \o FlatLines(PropertyLine, OwnEntries(Get(f, "properties")))
               \o <<"">>
    IN IF Len(features) = 0
       THEN Join(<<"# " \o title, "", "No features found at this location.">>, "\n")
       ELSE Join(<<"# " \o title, "", F(collection, "totalFeatures") \o " feature(s) found:", "">>
                 \o FlatLines(FeatureLines, [i \in 1..Len(features) |-> i]), "\n")

\* the body shared by the four location handlers, which differ in their title
FeatureInfoBody(p, raw, title) ==
    IF PruneFeatureCollectionThrows(raw) THEN PruneFeatureCollectionError(raw)
    ELSE IF IsJson(p) THEN Rendered(JSONPretty(pruneFeatureCollection(raw)))
    ELSE Rendered(formatCollectionMarkdown(pruneFeatureCollection(raw), title))

LonField == NumberField("lon", -180, 180)
LatField == NumberField("lat", -90, 90)
PartitionField == StringField("partition", FALSE, 0, "none")

LocationParams(p) == << <<"lon", p["lon"]>>, <<"lat", p["lat"]>> >>

infoplu_get_du_at_location_Schema ==
    << LonField, LatField,
       EnumField("typeName", {"document", "municipality", "info_lin", "info_pct", "info_surf",
                              "prescription_lin", "prescription_pct", "prescription_surf",
                              "secteur_cc", "zone_urba"}),
       PartitionField,
       ResponseFormatField >>

infoplu_get_du_at_location_Request(p) ==
    [path |-> "/feature-info/du",
     hasParams |-> TRUE,
     params |-> LocationParams(p)
                \o Opt(Truthy(p["typeName"]), "typeName", p["typeName"])
                \o Opt(Truthy(p["partition"]), "partition", p["partition"])]

infoplu_get_du_at_location_Body(p, raw) ==
    FeatureInfoBody(p, raw,
        "DU Features at (lon=" \o ToStr(p["lon"]) \o ", lat=" \o ToStr(p["lat"]) \o ")"
        \o (IF Truthy(p["typeName"]) THEN " - type: " \o ToStr(p["typeName"]) ELSE ""))

infoplu_get_du_at_location(p, raw) == Sliced(infoplu_get_du_at_location_Body(p, raw))

infoplu_get_sup_at_location_Schema ==
    << LonField, LatField,
       EnumField("typeName", {"assiette_sup_p", "assiette_sup_l", "assiette_sup_s"}),
       PartitionField,
       ResponseFormatField >>

infoplu_get_sup_at_location_Request(p) ==
    [path |-> "/feature-info/sup",
     hasParams |-> TRUE,
     params |-> LocationParams(p)
                \o Opt(Truthy(p["typeName"]), "typeName", p["typeName"])
                \o Opt(Truthy(p["partition"]), "partition", p["partition"])]

infoplu_get_sup_at_location_Body(p, raw) ==
    FeatureInfoBody(p, raw,
        "SUP Servitudes at (lon=" \o ToStr(p["lon"]) \o ", lat=" \o ToStr(p["lat"]) \o ")")

infoplu_get_sup_at_location(p, raw) == Sliced(infoplu_get_sup_at_location_Body(p, raw))

infoplu_get_scot_at_location_Schema ==
    << LonField, LatField, PartitionField, ResponseFormatField >>

infoplu_get_scot_at_location_Request(p) ==
    [path |-> "/feature-info/scot",
     hasParams |-> TRUE,
     params |-> LocationParams(p)
                \o Opt(Truthy(p["partition"]), "partition", p["partition"])]

infoplu_get_scot_at_location_Body(p, raw) ==
    FeatureInfoBody(p, raw,
        "SCoT at (lon=" \o ToStr(p["lon"]) \o ", lat=" \o ToStr(p["lat"]) \o ")")

infoplu_get_scot_at_location(p, raw) == Sliced(infoplu_get_scot_at_location_Body(p, raw))

infoplu_get_features_by_parcel_Schema ==
    << StringField("parcelId", TRUE, 1, "none"), ResponseFormatField >>

infoplu_get_features_by_parcel_Request(p) ==
    [path |-> "/feature-info/parcel/" \o ToStr(p["parcelId"]), hasParams |-> FALSE, params |-> <<>>]

infoplu_get_features_by_parcel_Body(p, raw) ==
    FeatureInfoBody(p, raw, "Urban Planning Features for Parcel " \o ToStr(p["parcelId"]))

infoplu_get_features_by_parcel(p, raw) == Sliced(infoplu_get_features_by_parcel_Body(p, raw))

-----------------------------------------------------------------------------
(* Bounds and input sets of the two pure-function runs *)

MaxEntries == 2     \* entries of a serialized mapping
MaxArr == 2         \* elements of an array value

SeqsUpTo(S, n) == UNION {[1..k -> S] : k \in 0..n}

QKeys == {"type", "a b", "k&=[]"}
QItems == {Str("x&y"), Num(7)}
QScalars == {Str(""), Str("a=c [d]%+"), Num(0), Bool(FALSE)}
QValues == {Undef, Null} \cup QScalars \cup {Arr(xs) : xs \in SeqsUpTo(QItems, MaxArr)}

\* the entries of a JavaScript object: no key twice
QMappings ==
    {m \in SeqsUpTo(QKeys \X QValues, MaxEntries) :
        \A i, j \in 1..Len(m) : i # j => m[i][1] # m[j][1]}

EStatuses == {400, 401, 403, 404, 418, 429, 500, 502, 503, 504}
EData == {Undef, Null, Str("<html>"), Obj(<<>>), Obj(<<<<"message", Str("bad filter")>>>>),
          Obj(<<<<"message", Str("")>>>>)}
EStatusTexts == {Undef, Str(""), Str("Bad Request")}
ECodes == {"ERR_BAD_REQUEST", "ERR_BAD_RESPONSE", "ECONNABORTED", "ECONNREFUSED",
           "ENOTFOUND", "ERR_NETWORK", "ETIMEDOUT"}
EMessages == {"timeout of 30000ms exceeded", "Network Error"}

Failures ==
    {AxiosError(c, "Request failed", Response(st, d, tx)) :
        c \in {"ERR_BAD_REQUEST", "ECONNABORTED", "ECONNREFUSED"}, st \in EStatuses, d \in EData, tx \in EStatusTexts}
    \cup {AxiosError(c, m, NoResponse) : c \in ECodes, m \in EMessages}
    \cup {PlainError(m) : m \in {"grids.map is not a function", ""}}
    \cup {ThrownValue(v) : v \in {Str("boom"), Num(5), Null, Undef, Obj(<<>>)}}

IdleCall ==
    /\ pc = "idle"
    /\ tool = "none"
    /\ args = Obj(<<>>)
    /\ sent = <<>>
    /\ outcome = [k |-> "none"]
    /\ result = [k |-> "none"]
    /\ elapsed = 0

IdleSerializer ==
    /\ qParams = <<>>
    /\ qOut = [done |-> FALSE]

IdleTranslator ==
    /\ eFailure = ThrownValue(Undef)
    /\ eOut = [done |-> FALSE]

IdlePruner ==
    /\ pIn = [fn |-> "none", raw |-> Undef]
    /\ pOut = [done |-> FALSE]

\* the timeout the client is created with, in milliseconds
REQUEST_TIMEOUT_MS == 30000

\* process.env.API_BASE_URL ?? the public endpoint
API_BASE_URL == "https://www.geoportail-urbanisme.gouv.fr/api"

\* axios.create({ baseURL, timeout, headers, paramsSerializer })
ClientConfig == [baseURL |-> API_BASE_URL, timeout |-> REQUEST_TIMEOUT_MS]

NoMap == [id \in {} |-> 0]

\* no request was served yet
NothingServed ==
    [n |-> 0, route |-> "none", sid |-> "", status |-> 0, by |-> 0, created |-> FALSE]

IdleServer ==
    /\ transports = <<>>
    /\ streamableSessions = NoMap
    /\ sseTransports = NoMap
    /\ served = NothingServed

IdleCalls ==
    /\ calls = <<>>
    /\ client = ClientConfig

-----------------------------------------------------------------------------
(* The Query Serializer run on every mapping of QMappings *)

InitSerialize ==
    /\ IdleCall
    /\ IdleServer
    /\ IdleCalls
    /\ IdleTranslator
    /\ IdlePruner
    /\ qParams \in QMappings
    /\ qOut = [done |-> FALSE]

Serialize ==
    /\ ~qOut.done
    /\ qOut' = [done |-> TRUE, query |-> serializeParams(qParams)]
    /\ UNCHANGED <<callVars, eVars, pVars, sVars, cVars, qParams>>

NextSerialize == Serialize

SpecSerialize == InitSerialize /\ [][NextSerialize]_vars

-----------------------------------------------------------------------------
(* The Error Translator run on every failure of Failures *)

InitTranslate ==
    /\ IdleCall
    /\ IdleServer
    /\ IdleCalls
    /\ IdleSerializer
    /\ IdlePruner
    /\ eFailure \in Failures
    /\ eOut = [done |-> FALSE]

Translate ==
    /\ ~eOut.done
    /\ eOut' = [done |-> TRUE, text |-> handleApiError(eFailure)]
    /\ UNCHANGED <<callVars, qVars, pVars, sVars, cVars, eFailure>>

NextTranslate == Translate

SpecTranslate == InitTranslate /\ [][NextTranslate]_vars

-----------------------------------------------------------------------------
(* The sixteen registered tools *)

GridTools == {"infoplu_search_grids", "infoplu_get_grid", "infoplu_get_grid_parents",
              "infoplu_get_grid_children"}
DocumentTools == {"infoplu_search_documents", "infoplu_get_document_details",
                  "infoplu_list_document_files"}
ProcedureTools == {"infoplu_search_procedures"}
StandardTools == {"infoplu_list_document_models", "infoplu_get_document_model",
                  "infoplu_list_sup_categories", "infoplu_list_du_categories"}
FeatureInfoTools == {"infoplu_get_du_at_location", "infoplu_get_sup_at_location",
                     "infoplu_get_scot_at_location", "infoplu_get_features_by_parcel"}

\* createServer: every register...Tools(server) call
Tools == DocumentTools \cup GridTools \cup ProcedureTools \cup StandardTools \cup FeatureInfoTools

\* the inputSchema the tool t is registered with
Schema(t) ==
    CASE t = "infoplu_search_grids"         -> infoplu_search_grids_Schema
      [] t = "infoplu_get_grid"             -> infoplu_get_grid_Schema
      [] t = "infoplu_get_grid_parents"     -> infoplu_get_grid_parents_Schema
      [] t = "infoplu_get_grid_children"    -> infoplu_get_grid_children_Schema
      [] t = "infoplu_search_documents"     -> infoplu_search_documents_Schema
      [] t = "infoplu_get_document_details" -> infoplu_get_document_details_Schema
      [] t = "infoplu_list_document_files"  -> infoplu_list_document_files_Schema
      [] t = "infoplu_search_procedures"    -> infoplu_search_procedures_Schema
      [] t = "infoplu_list_document_models" -> infoplu_list_document_models_Schema
      [] t = "infoplu_get_document_model"   -> infoplu_get_document_model_Schema
      [] t = "infoplu_list_sup_categories"  -> infoplu_list_sup_categories_Schema
      [] t = "infoplu_list_du_categories"   -> infoplu_list_du_categories_Schema
      [] t = "infoplu_get_du_at_location"   -> infoplu_get_du_at_location_Schema
      [] t = "infoplu_get_sup_at_location"  -> infoplu_get_sup_at_location_Schema
      [] t = "infoplu_get_scot_at_location" -> infoplu_get_scot_at_location_Schema
      [] t = "infoplu_get_features_by_parcel"      -> infoplu_get_features_by_parcel_Schema

\* the path and query parameters the handler of t hands to apiGet
Request(t, p) ==
    CASE t = "infoplu_search_grids"         -> infoplu_search_grids_Request(p)
      [] t = "infoplu_get_grid"             -> infoplu_get_grid_Request(p)
      [] t = "infoplu_get_grid_parents"     -> infoplu_get_grid_parents_Request(p)
      [] t = "infoplu_get_grid_children"    -> infoplu_get_grid_children_Request(p)
      [] t = "infoplu_search_documents"     -> infoplu_search_documents_Request(p)
      [] t = "infoplu_get_document_details" -> infoplu_get_document_details_Request(p)
      [] t = "infoplu_list_document_files"  -> infoplu_list_document_files_Request(p)
      [] t = "infoplu_search_procedures"    -> infoplu_search_procedures_Request(p)
      [] t = "infoplu_list_document_models" -> infoplu_list_document_models_Request(p)
      [] t = "infoplu_get_document_model"   -> infoplu_get_document_model_Request(p)
      [] t = "infoplu_list_sup_categories"  -> infoplu_list_sup_categories_Request(p)
      [] t = "infoplu_list_du_categories"   -> infoplu_list_du_categories_Request(p)
      [] t = "infoplu_get_du_at_location"   -> infoplu_get_du_at_location_Request(p)
      [] t = "infoplu_get_sup_at_location"  -> infoplu_get_sup_at_location_Request(p)
      [] t = "infoplu_get_scot_at_location" -> infoplu_get_scot_at_location_Request(p)
      [] t = "infoplu_get_features_by_parcel"      -> infoplu_get_features_by_parcel_Request(p)

\* what the handler of t makes of the upstream data, before any cut
Body(t, p, data) ==
    CASE t = "infoplu_search_grids"         -> infoplu_search_grids_Body(p, data)
      [] t = "infoplu_get_grid"             -> infoplu_get_grid_Body(p, data)
      [] t = "infoplu_get_grid_parents"     -> infoplu_get_grid_parents_Body(p, data)
      [] t = "infoplu_get_grid_children"    -> infoplu_get_grid_children_Body(p, data)
      [] t = "infoplu_search_documents"     -> infoplu_search_documents_Body(p, data)
      [] t = "infoplu_get_document_details" -> infoplu_get_document_details_Body(p, data)
      [] t = "infoplu_list_document_files"  -> infoplu_list_document_files_Body(p, data)
      [] t = "infoplu_search_procedures"    -> infoplu_search_procedures_Body(p, data)
      [] t = "infoplu_list_document_models" -> infoplu_list_document_models_Body(p, data)
      [] t = "infoplu_get_document_model"   -> infoplu_get_document_model_Body(p, data)
      [] t = "infoplu_list_sup_categories"  -> infoplu_list_sup_categories_Body(p, data)
      [] t = "infoplu_list_du_categories"   -> infoplu_list_du_categories_Body(p, data)
      [] t = "infoplu_get_du_at_location"   -> infoplu_get_du_at_location_Body(p, data)
      [] t = "infoplu_get_sup_at_location"  -> infoplu_get_sup_at_location_Body(p, data)
      [] t = "infoplu_get_scot_at_location" -> infoplu_get_scot_at_location_Body(p, data)
      [] t = "infoplu_get_features_by_parcel"      -> infoplu_get_features_by_parcel_Body(p, data)

\* what the try block of the handler of t returns or raises once the data is there
Handle(t, p, data) ==
    CASE t = "infoplu_search_grids"         -> infoplu_search_grids(p, data)
      [] t = "infoplu_get_grid"             -> infoplu_get_grid(p, data)
      [] t = "infoplu_get_grid_parents"     -> infoplu_get_grid_parents(p, data)
      [] t = "infoplu_get_grid_children"    -> infoplu_get_grid_children(p, data)
      [] t = "infoplu_search_documents"     -> infoplu_search_documents(p, data)
      [] t = "infoplu_get_document_details" -> infoplu_get_document_details(p, data)
      [] t = "infoplu_list_document_files"  -> infoplu_list_document_files(p, data)
      [] t = "infoplu_search_procedures"    -> infoplu_search_procedures(p, data)
      [] t = "infoplu_list_document_models" -> infoplu_list_document_models(p, data)
      [] t = "infoplu_get_document_model"   -> infoplu_get_document_model(p, data)
      [] t = "infoplu_list_sup_categories"  -> infoplu_list_sup_categories(p, data)
      [] t = "infoplu_list_du_categories"   -> infoplu_list_du_categories(p, data)
      [] t = "infoplu_get_du_at_location"   -> infoplu_get_du_at_location(p, data)
      [] t = "infoplu_get_sup_at_location"  -> infoplu_get_sup_at_location(p, data)
      [] t = "infoplu_get_scot_at_location" -> infoplu_get_scot_at_location(p, data)
      [] t = "infoplu_get_features_by_parcel"      -> infoplu_get_features_by_parcel(p, data)

\* a registration that runs the handler on whatever arrives
NoInputValidation(t, a) == TRUE

\* the check of the arguments against inputSchema that precedes the handler
validateToolInput(t, a) == Conforms(Schema(t), a)

\* client.get(path, { params }): one GET; the query string is the serializer's
\* when params were passed, and absent otherwise
apiGet(request) ==
    [method |-> "GET",
     url |-> request.path,
     query |-> IF request.hasParams THEN serializeParams(request.params) ELSE ""]

\* a handler that looks the territory up before its own request
HandlerCallsChained(t, p) ==
    IF t \in GridTools
    THEN <<apiGet([path |-> "/grid", hasParams |-> FALSE, params |-> <<>>]), apiGet(Request(t, p))>>
    ELSE <<apiGet(Request(t, p))>>

\* the upstream requests of one run of the handler of t: its one await apiGet(...)
HandlerCalls(t, p) == <<apiGet(Request(t, p))>>

\* what the upstream call came to
Data(d) == [k |-> "data", data |-> d]
Failed(e) == [k |-> "error", error |-> e]

\* the try block: the awaited call raises, or the rest of the block runs on its data
HandlerBody(t, p, o) ==
    IF o.k = "error" THEN Throw(o.error) ELSE Handle(t, p, o.data)

\* a catch that translates upstream errors only and lets the others unwind
CatchAxiosOnly(r) ==
    IF r.k = "throw" /\ r.error.cls = "AxiosError" THEN Text(handleApiError(r.error)) ELSE r

\* catch (error) { return { content: [{ type: "text", text: handleApiError(error) }] } }
Catch(r) == IF r.k = "throw" THEN Text(handleApiError(r.error)) ELSE r

ToolResult(t, p, o) == Catch(HandlerBody(t, p, o))

\* the reply to arguments the schema rejects: the call itself fails
InvalidParams == [k |-> "invalidParams"]

-----------------------------------------------------------------------------
(* Arguments and upstream answers one invocation is run on *)

LargeCount == 600   \* elements of a long upstream list

Geometry ==
    Obj(<< <<"type", Str("Polygon")>>,
           <<"coordinates", Arr(<<Arr(<<Arr(<<Num(4), Num(45)>>), Arr(<<Num(5), Num(46)>>)>>)>>)>> >>)

BBox == Arr(<<Num(4), Num(45), Num(5), Num(46)>>)

\* a territory as the upstream sends it
RawGrid(i) ==
    Obj(<< <<"name", Str(ToString(69000 + i))>>, <<"title", Str("Commune " \o ToString(i))>>,
           <<"type", Str("municipality")>>, <<"rnu", Bool(i % 2 = 0)>>,
           <<"geometry", Geometry>> >>)

RawFile(i) ==
    Obj(<< <<"name", Str("reglement_" \o ToString(i) \o ".pdf")>>,
           <<"title", IF i % 2 = 0 THEN Null ELSE Str("Reglement " \o ToString(i))>>,
           <<"path", Str("Pieces_ecrites/3_Reglement/reglement_" \o ToString(i) \o ".pdf")>> >>)

SampleId == "0123456789abcdef0123456789abcdef"

RawDoc(i) ==
    Obj(<< <<"id", Str(SampleId)>>, <<"originalName", Str("69123_PLU_2020010" \o ToString(i))>>,
           <<"type", Str("PLU")>>, <<"status", Str("document.production")>>,
           <<"statusDate", Str("2020-01-01")>>, <<"legalStatus", Str("APPROVED")>>,
           <<"name", Str("DU_69123")>>, <<"grid", RawGrid(i)>>, <<"bbox", BBox>>,
           <<"uploadDate", Str("2020-01-01")>>, <<"updateDate", Str("2020-02-01")>>,
           <<"protected", Bool(FALSE)>>, <<"files", Arr(<<RawFile(1), RawFile(2)>>)>>,
           <<"writingMaterials", Obj(<< <<"reglement", Str("https://example.org/r.pdf")>> >>)>> >>)

RawProcedure(i) ==
    Obj(<< <<"id", Str(ToString(i))>>, <<"name", Str("Revision " \o ToString(i))>>,
           <<"documentType", Str("PLU")>>, <<"documentName", Str("69123_PLU_20200101")>>,
           <<"procedureType", Str(IF i % 2 = 0 THEN "R" ELSE "XX")>>,
           <<"approbationDate", Str("2020-01-01")>>, <<"grid", RawGrid(i)>>,
           <<"files", Arr(<<RawFile(i)>>)>> >>)

RawModel(i) ==
    Obj(<< <<"id", Str(ToString(i))>>, <<"name", Str("cnig_PLU_201" \o ToString(i))>>,
           <<"title", Str("Standard CNIG PLU")>>, <<"abstract", Bool(i % 2 = 0)>>,
           <<"type", Str("PLU")>>, <<"parent", Str("cnig_PLU")>>,
           <<"featureTypes",
               Arr(<< Obj(<< <<"name", Str("zone_urba")>>, <<"title", Str("Zones")>>,
                             <<"description", Str("Zonage")>>,
                             <<"attributes",
                                Arr(<< Obj(<< <<"name", Str("libelle")>>, <<"type", Str("String")>>,
                                              <<"title", Str("Libelle")>> >>) >>)>> >>) >>)>> >>)

RawSupCategory(i) ==
    Obj(<< <<"name", Str("AC" \o ToString(i))>>, <<"libelle", Str("Monuments historiques")>>,
           <<"libelleCourt", Str("MH")>>, <<"downloadable", Bool(i % 2 = 0)>> >>)

RawDuCategory(i) ==
    Obj(<< <<"type", Str(IF i % 2 = 0 THEN "PLU" ELSE "CC")>>, <<"code", Str("U")>>,
           <<"sous_code", IF i % 3 = 0 THEN Str("a") ELSE Null>>,
           <<"libelong", Str("Zone urbaine")>> >>)

RawFeature(i) ==
    Obj(<< <<"id", Str("zone_urba." \o ToString(i))>>, <<"type", Str("Feature")>>,
           <<"geometry", Geometry>>, <<"bbox", BBox>>,
           <<"properties", Obj(<< <<"libelle", Str("UA")>>, <<"typezone", Str("U")>>,
                                  <<"empty", Str("")>>, <<"nothing", Null>>,
                                  <<"tags", Arr(<<Str("a"), Num(1)>>)>> >>)>> >>)

RawCollection(n) ==
    Obj(<< <<"type", Str("FeatureCollection")>>, <<"bbox", BBox>>,
           <<"features", Arr([i \in 1..n |-> RawFeature(i)])>> >>)

\* the answers to a tool whose upstream answer is a list of items
ListsOf(item(_)) ==
    {Arr(<<>>), Arr(<<item(1), item(2)>>), Arr(<<item(1), Null>>), Null, Obj(<<>>),
     Arr([i \in 1..LargeCount |-> item(i)])}

BodiesOf(t) ==
    CASE t \in {"infoplu_search_grids", "infoplu_get_grid_parents", "infoplu_get_grid_children"} ->
            ListsOf(RawGrid)
      [] t = "infoplu_get_grid" -> {RawGrid(1), RawGrid(2), Null}
      [] t = "infoplu_search_documents" -> ListsOf(RawDoc)
      [] t = "infoplu_get_document_details" -> {RawDoc(1), Obj(<<>>), Null}
      [] t = "infoplu_list_document_files" -> ListsOf(RawFile)
      [] t = "infoplu_search_procedures" -> ListsOf(RawProcedure)
      [] t = "infoplu_list_document_models" -> ListsOf(RawModel)
      [] t = "infoplu_get_document_model" -> {RawModel(1), Obj(<<>>), Null}
      [] t = "infoplu_list_sup_categories" -> ListsOf(RawSupCategory)
      [] t = "infoplu_list_du_categories" -> ListsOf(RawDuCategory)
      [] t \in FeatureInfoTools ->
            {RawCollection(0), RawCollection(2), RawCollection(LargeCount), Obj(<<>>), Null}

\* arguments that fill the required fields of t
BaseArgs(t) ==
    CASE t \in {"infoplu_get_grid", "infoplu_get_grid_parents", "infoplu_get_grid_children",
                "infoplu_search_procedures"} -> << <<"gridName", Str("69123")>> >>
      [] t \in {"infoplu_get_document_details", "infoplu_list_document_files"} ->
            << <<"documentId", Str(SampleId)>> >>
      [] t = "infoplu_get_document_model" -> << <<"documentModel", Str("cnig_PLU_2017")>> >>
      [] t \in {"infoplu_get_du_at_location", "infoplu_get_sup_at_location",
                "infoplu_get_scot_at_location"} -> << <<"lon", Num(5)>>, <<"lat", Num(-21)>> >>
      [] t = "infoplu_get_features_by_parcel" -> << <<"parcelId", Str("69_123_000_AB_0042")>> >>
      [] OTHER -> <<>>

\* optional arguments, some of which the schema of t accepts
OptionalArgs ==
    { <<>>,
      << <<"response_format", Str("json")>> >>,
      << <<"response_format", Str("xml")>> >>,
      << <<"limit", Num(100)>>, <<"page", Num(1)>> >>,
      << <<"limit", Num(101)>> >>,
      << <<"limit", Num(0)>> >>,
      << <<"name", Str("Lyon")>>, <<"type", Arr(<<Str("municipality"), Str("epci")>>)>>,
         <<"rnu", Bool(FALSE)>> >>,
      << <<"documentType", Arr(<<Str("PLU"), Str("PLUi")>>)>>, <<"legalStatus", Str("APPROVED")>>,
         <<"uploadedAfter", Str("20200101")>> >>,
      << <<"documentType", Str("PLU")>>, <<"procedureType", Str("R")>>,
         <<"approbedAfter", Str("20200101")>> >>,
      << <<"approbedAfter", Str("2020-01-01")>> >>,
      << <<"type", Str("PLU")>>, <<"abstract", Bool(FALSE)>> >>,
      << <<"typeName", Str("zone_urba")>>, <<"partition", Str("DU_69123")>> >>,
      << <<"lat", Num(91)>> >>,
      << <<"documentId", Str("0123456789ABCDEF0123456789ABCDEF")>> >>,
      << <<"documentModel", Str("plu_2017")>> >>,
      << <<"gridName", Str("")>> >>,
      << <<"documentId", Str("0123456789abcdef0123456789abcde")>> >>,
      << <<"documentId", Str("0123456789abcdef0123456789abcdefa")>> >>,
      << <<"documentId", Str("0123456789abcdef0123456789abcdeg")>> >>,
      << <<"documentId", Num(7)>> >>,
      << <<"parcelId", Str("lyon")>> >>,
      << <<"gridName", Str("69123/children")>> >>,
      << <<"gridName", Str("69?x=1#top")>> >>,
      << <<"name", Str("")>>, <<"title", Str("Lyon")>>, <<"type", Arr(<<>>)>>,
         <<"approved", Bool(FALSE)>> >>,
      << <<"partition", Str("")>>, <<"documentFamily", Arr(<<>>)>> >>,
      << <<"partition", Str("")>>, <<"typeName", Str("zone_urba")>> >>,
      << <<"abstract", Bool(TRUE)>> >>,
      << <<"verbose", Bool(TRUE)>> >> }

\* later entries replace earlier ones of the same key, as in an object literal
MergeArgs(base, extra) ==
    LET Kept(e) == \A i \in 1..Len(extra) : extra[i][1] # e[1]
    IN Obj(SelectSeq(base, Kept) \o extra)

ArgsOf(t) ==
    {MergeArgs(BaseArgs(t), extra) : extra \in OptionalArgs}
    \cup {Obj(<<>>), Obj(<< <<"response_format", Str("json")>> >>)}

\* the failures of the awaited call
UpstreamFailures ==
    {AxiosError("ERR_BAD_REQUEST", "Request failed", Response(st, d, Str("Bad Request"))) :
        st \in {400, 404, 418, 429}, d \in {Undef, Obj(<<<<"message", Str("bad filter")>>>>)}}
    \cup {AxiosError("ERR_BAD_RESPONSE", "Request failed", Response(st, d, Undef)) :
            st \in {500, 502, 503, 504},
            d \in {Str("<html>"), Obj(<<<<"message", Str("down")>>>>)}}
    \cup {AxiosError(c, "failed", NoResponse) :
            c \in {"ECONNABORTED", "ECONNREFUSED", "ENOTFOUND", "ERR_NETWORK"}}
    \cup {PlainError("socket hang up"), ThrownValue(Str("boom"))}

\* the granularity at which the model lets time pass while a request is in flight
TimeStep == 15000

\* what the client throws when it cancels a request at its timeout
TimeoutFailure ==
    AxiosError("ECONNABORTED",
               "timeout of " \o ToString(REQUEST_TIMEOUT_MS) \o "ms exceeded", NoResponse)

-----------------------------------------------------------------------------
(* One tool invocation *)

Init ==
    /\ IdleCall
    /\ IdleSerializer
    /\ IdleTranslator
    /\ IdlePruner
    /\ IdleServer
    /\ IdleCalls

\* a call arrives with arguments the schema accepts: the handler runs up to
\* its await, having issued its request
StartCall ==
    /\ pc = "idle"
    /\ \E t \in Tools : \E a \in ArgsOf(t) :
        /\ validateToolInput(t, a)
        /\ tool' = t
        /\ args' = a
        /\ sent' = sent \o HandlerCalls(t, ParseArgs(Schema(t), a))
    /\ pc' = "awaiting"
    /\ UNCHANGED <<outcome, result, elapsed, qVars, eVars, pVars, sVars, cVars>>

\* a call arrives with arguments the schema rejects: the handler never runs
RejectCall ==
    /\ pc = "idle"
    /\ \E t \in Tools : \E a \in ArgsOf(t) :
        /\ ~validateToolInput(t, a)
        /\ tool' = t
        /\ args' = a
    /\ result' = InvalidParams
    /\ pc' = "done"
    /\ UNCHANGED <<sent, outcome, elapsed, qVars, eVars, pVars, sVars, cVars>>

\* time passes while the request is in flight, up to the client's timeout
TimePasses ==
    /\ pc = "awaiting"
    /\ elapsed < REQUEST_TIMEOUT_MS
    /\ elapsed' = elapsed + TimeStep
    /\ UNCHANGED <<pc, tool, args, sent, outcome, result, qVars, eVars, pVars, sVars, cVars>>

\* the request has been in flight for the whole timeout: the client cancels it
RequestTimesOut ==
    /\ pc = "awaiting"
    /\ elapsed >= REQUEST_TIMEOUT_MS
    /\ outcome' = Failed(TimeoutFailure)
    /\ pc' = "responded"
    /\ UNCHANGED <<tool, args, sent, result, elapsed, qVars, eVars, pVars, sVars, cVars>>

\* the awaited request is answered with a 2xx and a body
UpstreamResponds ==
    /\ pc = "awaiting"
    /\ elapsed < REQUEST_TIMEOUT_MS
    /\ \E d \in BodiesOf(tool) : outcome' = Data(d)
    /\ pc' = "responded"
    /\ UNCHANGED <<tool, args, sent, result, elapsed, qVars, eVars, pVars, sVars, cVars>>

\* the awaited request fails
UpstreamFails ==
    /\ pc = "awaiting"
    /\ elapsed < REQUEST_TIMEOUT_MS
    /\ \E e \in UpstreamFailures : outcome' = Failed(e)
    /\ pc' = "responded"
    /\ UNCHANGED <<tool, args, sent, result, elapsed, qVars, eVars, pVars, sVars, cVars>>

\* the handler resumes after its await and runs to its return
Resume ==
    /\ pc = "responded"
    /\ result' = ToolResult(tool, ParseArgs(Schema(tool), args), outcome)
    /\ pc' = "done"
    /\ UNCHANGED <<tool, args, sent, outcome, elapsed, qVars, eVars, pVars, sVars, cVars>>

Next ==
    \/ StartCall
    \/ RejectCall
    \/ TimePasses
    \/ RequestTimesOut
    \/ UpstreamResponds
    \/ UpstreamFails
    \/ Resume

Spec == Init /\ [][Next]_vars

-----------------------------------------------------------------------------
(* The Response Pruner: the three prune functions run on upstream values *)

MaxFeatures == 2   \* features of a collection handed to the pruner

\* every object made of some of the entries es, in their order
RECURSIVE SubEntries(_)
SubEntries(es) ==
    IF es = <<>> THEN {<<>>}
    ELSE LET rest == SubEntries(Tail(es))
         IN rest \cup {<<Head(es)>> \o r : r \in rest}

\* territories: any of the fields the upstream sends, with or without a
\* geometry, a bbox and a parent territory that has a geometry of its own
GridShaped ==
    {Obj(es) : es \in SubEntries(RawGrid(1).entries
                                 \o << <<"bbox", BBox>>, <<"parent", RawGrid(2)>> >>)}

\* the grid field of a document: absent, null, or a territory
GridFieldShapes ==
    {<<>>, << <<"grid", Null>> >>, << <<"grid", RawGrid(1)>> >>,
     << <<"grid", pruneGrid(RawGrid(1))>> >>,
     << <<"grid", Obj(<< <<"geometry", Geometry>>, <<"bbox", BBox>> >>)>> >>}

\* documents: any of these fields around any of the grid fields
DocShaped ==
    {Obj(es \o g) :
        es \in SubEntries(<< <<"id", Str(SampleId)>>, <<"bbox", BBox>>,
                             <<"writingMaterials", Get(RawDoc(1), "writingMaterials")>>,
                             <<"geometry", Geometry>>,
                             <<"files", Arr(<<RawFile(1)>>)>> >>),
        g \in GridFieldShapes}

\* the elements a features array may hold
FeatureShapes ==
    {RawFeature(1),
     Obj(<< <<"type", Str("Feature")>>, <<"geometry", Geometry>>,
            <<"properties", Obj(<< <<"libelle", Str("N")>> >>)>> >>),
     Obj(<< <<"id", Num(7)>>, <<"geometry", Null>> >>),
     Obj(<< <<"id", Null>>, <<"properties", Null>> >>),
     Str("x"),
     Null}

\* collections of up to MaxFeatures such elements, with or without a
\* totalFeatures of the upstream's own, and answers without a features array
CollectionShaped ==
    {Obj(t \o << <<"type", Str("FeatureCollection")>>, <<"features", Arr(fs)>> >>) :
        t \in {<<>>, << <<"totalFeatures", Num(99)>> >>},
        fs \in SeqsUpTo(FeatureShapes, MaxFeatures)}
    \cup {Obj(<<>>), Obj(<< <<"features", Null>> >>), Obj(<< <<"features", Str("none")>> >>),
          Obj(<< <<"features", RawFeature(1)>> >>), Null}

Returned(v) == [k |-> "return", v |-> v]

\* a run that maps raw.features without testing that it is an array
PruneFeatureCollectionRunUnguarded(raw) ==
    IF IsNullish(raw) THEN ReadOfNullish(raw, "features")
    ELSE IF Get(raw, "features").t # "arr" THEN TypeError("raw.features.map is not a function")
    ELSE IF HasNullish(RawFeatures(raw)) THEN PruneFeatureCollectionError(raw)
    ELSE Returned(pruneFeatureCollection(raw))

\* one run of pruneFeatureCollection: what it returns, or what it raises
PruneFeatureCollectionRun(raw) ==
    IF PruneFeatureCollectionThrows(raw) THEN PruneFeatureCollectionError(raw)
    ELSE Returned(pruneFeatureCollection(raw))

InitPrune ==
    /\ IdleCall
    /\ IdleServer
    /\ IdleCalls
    /\ IdleSerializer
    /\ IdleTranslator
    /\ pIn \in {[fn |-> "pruneGrid", raw |-> r] : r \in GridShaped}
            \cup {[fn |-> "pruneDoc", raw |-> r] : r \in DocShaped}
            \cup {[fn |-> "pruneFeatureCollection", raw |-> r] : r \in CollectionShaped}
    /\ pOut = [done |-> FALSE]

PruneGrid ==
    /\ ~pOut.done
    /\ pIn.fn = "pruneGrid"
    /\ pOut' = [done |-> TRUE, r |-> Returned(pruneGrid(pIn.raw))]
    /\ UNCHANGED <<callVars, qVars, eVars, sVars, cVars, pIn>>

PruneDoc ==
    /\ ~pOut.done
    /\ pIn.fn = "pruneDoc"
    /\ pOut' = [done |-> TRUE, r |-> Returned(pruneDoc(pIn.raw))]
    /\ UNCHANGED <<callVars, qVars, eVars, sVars, cVars, pIn>>

PruneFeatureCollection ==
    /\ ~pOut.done
    /\ pIn.fn = "pruneFeatureCollection"
    /\ pOut' = [done |-> TRUE, r |-> PruneFeatureCollectionRun(pIn.raw)]
    /\ UNCHANGED <<callVars, qVars, eVars, sVars, cVars, pIn>>

NextPrune == PruneGrid \/ PruneDoc \/ PruneFeatureCollection

SpecPrune == InitPrune /\ [][NextPrune]_vars

-----------------------------------------------------------------------------
(* The HTTP server: the StreamableHTTP route /mcp and the legacy SSE routes   *)
(* /sse and /message, with their two session maps                            *)

MaxTransports == 2   \* transports created in one run
MaxRequests == 3     \* requests served in one run

\* randomUUID(): the session id of the t-th transport, unlike every other
SessionIdOf(t) == "session-" \o ToString(t)

\* new StreamableHTTPServerTransport({...}) / new SSEServerTransport("/message", res),
\* with the state of the response that came with the creating request
NewTransport(kind, sessionId, willInit) ==
    [kind |-> kind,             \* "streamable" or "sse"
     sessionId |-> sessionId,   \* transport.sessionId, "" until the session is initialized
     willInit |-> willInit,     \* the creating request is an initialize request
     initialized |-> FALSE,     \* onsessioninitialized was called
     resOpen |-> TRUE,          \* the creating response has not closed
     closed |-> FALSE]          \* transport.close() was called

\* map.set(id, t) and map.delete(id)
MapSet(map, id, t) == [x \in DOMAIN map \cup {id} |-> IF x = id THEN t ELSE map[x]]

MapDelete(map, id) == [x \in DOMAIN map \ {id} |-> map[x]]

\* for (const [id, t] of streamableSessions.entries()) if (t === transport) { delete(id); break; }
DeleteTransport(map, t) ==
    LET ids == {id \in DOMAIN map : map[id] = t}
    IN IF ids = {} THEN map ELSE MapDelete(map, CHOOSE id \in ids : TRUE)

\* the session ids a request may carry: none, empty, one never issued, or one
\* that a transport of this run has
RequestSessionIds ==
    {Undef, Str(""), Str("unknown")}
        \cup {Str(transports[t].sessionId) : t \in 1..Len(transports)}

Serve(route, sid, status, by, created) ==
    [n |-> served.n + 1, route |-> route, sid |-> sid, status |-> status, by |-> by,
     created |-> created]

\* sessionId && streamableSessions.has(sessionId)
HasStreamableSession(sid) == Truthy(sid) /\ sid.s \in DOMAIN streamableSessions

\* handleStreamable, reuse branch: the transport of the session handles the request
McpReuse ==
    /\ served.n < MaxRequests
    /\ \E sid \in RequestSessionIds :
        /\ HasStreamableSession(sid)
        /\ served' = Serve("mcp", sid, 0, streamableSessions[sid.s], FALSE)
    /\ UNCHANGED <<callVars, qVars, eVars, pVars, cVars, transports, streamableSessions,
                   sseTransports>>

\* handleStreamable, new-session branch: a server and a transport are created,
\* the close listener is registered, and the transport is handed the request
McpNewSession ==
    /\ served.n < MaxRequests
    /\ Len(transports) < MaxTransports
    /\ \E sid \in RequestSessionIds, isInitialize \in BOOLEAN :
        /\ ~HasStreamableSession(sid)
        /\ transports' = Append(transports, NewTransport("streamable", "", isInitialize))
        /\ served' = Serve("mcp", sid, 0, Len(transports) + 1, TRUE)
    /\ UNCHANGED <<callVars, qVars, eVars, pVars, cVars, streamableSessions, sseTransports>>

\* onsessioninitialized: (id) => streamableSessions.set(id, transport), called
\* by the transport while it handles the initialize request
SessionInitialized ==
    /\ \E t \in 1..Len(transports) :
        /\ transports[t].kind = "streamable"
        /\ transports[t].willInit
        /\ ~transports[t].initialized
        /\ transports' = [transports EXCEPT ![t].initialized = TRUE,
                                            ![t].sessionId = SessionIdOf(t)]
        /\ streamableSessions' = MapSet(streamableSessions, SessionIdOf(t), t)
    /\ UNCHANGED <<callVars, qVars, eVars, pVars, cVars, sseTransports, served>>

\* res.on("close", ...) of the response that came with the creating request
ResponseClosed ==
    /\ \E t \in 1..Len(transports) :
        /\ transports[t].resOpen
        /\ transports' = [transports EXCEPT ![t].resOpen = FALSE]
        /\ IF transports[t].kind = "streamable"
           THEN /\ streamableSessions' = DeleteTransport(streamableSessions, t)
                /\ UNCHANGED sseTransports
           ELSE /\ sseTransports' = MapDelete(sseTransports, transports[t].sessionId)
                /\ UNCHANGED streamableSessions
    /\ UNCHANGED <<callVars, qVars, eVars, pVars, cVars, served>>

\* app.delete("/mcp")
DeleteMcp ==
    /\ served.n < MaxRequests
    /\ \E sid \in RequestSessionIds :
        /\ served' = Serve("delete", sid, 200, 0, FALSE)
        /\ IF HasStreamableSession(sid)
           THEN /\ transports' = [transports EXCEPT ![streamableSessions[sid.s]].closed = TRUE]
                /\ streamableSessions' = MapDelete(streamableSessions, sid.s)
           ELSE UNCHANGED <<transports, streamableSessions>>
    /\ UNCHANGED <<callVars, qVars, eVars, pVars, cVars, sseTransports>>

\* app.get("/sse")
SseConnect ==
    /\ served.n < MaxRequests
    /\ Len(transports) < MaxTransports
    /\ LET t == Len(transports) + 1
       IN /\ transports' = Append(transports, NewTransport("sse", SessionIdOf(t), FALSE))
          /\ sseTransports' = MapSet(sseTransports, SessionIdOf(t), t)
          /\ served' = Serve("sse", Undef, 200, t, TRUE)
    /\ UNCHANGED <<callVars, qVars, eVars, pVars, cVars, streamableSessions>>

\* a routing that hands a message of an unknown session to some connected transport
postMessageAnyTransport(sessionId, map) ==
    IF ~Truthy(sessionId) THEN [status |-> 400, by |-> 0]
    ELSE IF sessionId.s \in DOMAIN map THEN [status |-> 0, by |-> map[sessionId.s]]
    ELSE IF DOMAIN map # {} THEN [status |-> 0, by |-> map[CHOOSE id \in DOMAIN map : TRUE]]
    ELSE [status |-> 404, by |-> 0]

\* app.post("/message"): the status the route answers with and the transport
\* it calls handlePostMessage on; by 0 is no transport, status 0 is the
\* transport's own answer
postMessage(sessionId, map) ==
    IF ~Truthy(sessionId) THEN [status |-> 400, by |-> 0]
    ELSE IF sessionId.s \notin DOMAIN map THEN [status |-> 404, by |-> 0]
    ELSE [status |-> 0, by |-> map[sessionId.s]]

PostMessage ==
    /\ served.n < MaxRequests
    /\ \E sid \in RequestSessionIds :
        served' = Serve("message", sid, postMessage(sid, sseTransports).status,
                        postMessage(sid, sseTransports).by, FALSE)
    /\ UNCHANGED <<callVars, qVars, eVars, pVars, cVars, transports, streamableSessions,
                   sseTransports>>

InitServer ==
    /\ IdleCall
    /\ IdleSerializer
    /\ IdleTranslator
    /\ IdlePruner
    /\ IdleServer
    /\ IdleCalls

NextServer ==
    \/ McpReuse
    \/ McpNewSession
    \/ SessionInitialized
    \/ ResponseClosed
    \/ DeleteMcp
    \/ SseConnect
    \/ PostMessage

SpecServer == InitServer /\ [][NextServer]_vars

-----------------------------------------------------------------------------
(* Concurrent invocations: several handlers in flight on the one client       *)

MaxCalls == 2   \* invocations in flight together

ConcurrentTools == {"infoplu_get_grid", "infoplu_search_procedures"}

ConcurrentArgs(t) ==
    {Obj(BaseArgs(t)), MergeArgs(BaseArgs(t), << <<"response_format", Str("json")>> >>)}

\* what the upstream may answer to a request of t
ConcurrentAnswers(t) ==
    (IF t = "infoplu_get_grid"
     THEN {Data(RawGrid(1)), Data(RawGrid(2))}
     ELSE {Data(Arr(<<RawProcedure(1)>>)), Data(Arr(<<>>))})
    \cup {Failed(AxiosError("ERR_BAD_REQUEST", "Request failed",
                            Response(404, Undef, Str("Not Found")))),
          Failed(TimeoutFailure)}

\* a client that keeps the latest answer in one place, from which every
\* handler reads
DeliveredLatest(cs, i) ==
    LET answered == {j \in 1..Len(cs) : cs[j].outcome.k # "none"}
    IN cs[CHOOSE j \in answered : \A k \in answered : k <= j].outcome

\* const response = await client.get(path, { params }): the promise of each
\* request resolves with the answer to that request
Delivered(cs, i) == cs[i].outcome

\* a handler is invoked and runs up to its await: it reads the client's
\* configuration and issues its request
CallStarts ==
    /\ Len(calls) < MaxCalls
    /\ \E t \in ConcurrentTools : \E a \in ConcurrentArgs(t) :
        /\ validateToolInput(t, a)
        /\ calls' = Append(calls,
                [pc |-> "awaiting", tool |-> t, args |-> a,
                 request |-> [baseURL |-> client.baseURL, timeout |-> client.timeout,
                              get |-> HandlerCalls(t, ParseArgs(Schema(t), a))],
                 outcome |-> [k |-> "none"], result |-> [k |-> "none"]])
    /\ UNCHANGED <<callVars, qVars, eVars, pVars, sVars, client>>

\* the request of one of the calls in flight is answered
CallAnswered ==
    /\ \E i \in 1..Len(calls) :
        /\ calls[i].pc = "awaiting"
        /\ \E o \in ConcurrentAnswers(calls[i].tool) :
            calls' = [calls EXCEPT ![i].outcome = o, ![i].pc = "responded"]
    /\ UNCHANGED <<callVars, qVars, eVars, pVars, sVars, client>>

\* the handler of one of the answered calls resumes and returns
CallReturns ==
    /\ \E i \in 1..Len(calls) :
        /\ calls[i].pc = "responded"
        /\ calls' = [calls EXCEPT
                ![i].result = ToolResult(calls[i].tool,
                                         ParseArgs(Schema(calls[i].tool), calls[i].args),
                                         Delivered(calls, i)),
                ![i].pc = "done"]
    /\ UNCHANGED <<callVars, qVars, eVars, pVars, sVars, client>>

InitConcurrent ==
    /\ IdleCall
    /\ IdleSerializer
    /\ IdleTranslator
    /\ IdlePruner
    /\ IdleServer
    /\ IdleCalls

NextConcurrent == CallStarts \/ CallAnswered \/ CallReturns

SpecConcurrent == InitConcurrent /\ [][NextConcurrent]_vars

-----------------------------------------------------------------------------
(* Reading a query string back: what a receiver of the request does *)

\* where the character d first occurs in s
FirstIndex(s, d) ==
    LET at == {i \in 1..Len(s) : CharAt(s, i) = d}
    IN CHOOSE i \in at : \A j \in at : i <= j

RECURSIVE SplitOn(_, _)
SplitOn(s, d) ==
    IF ~Contains(s, d) THEN <<s>>
    ELSE LET i == FirstIndex(s, d)
         IN <<SubSeq(s, 1, i - 1)>> \o SplitOn(SubSeq(s, i + 1, Len(s)), d)

QueryPairs(q) == IF q = "" THEN <<>> ELSE SplitOn(q, "&")

PairKey(pair) == IF Contains(pair, "=") THEN SubSeq(pair, 1, FirstIndex(pair, "=") - 1) ELSE pair

PairValue(pair) ==
    IF Contains(pair, "=") THEN SubSeq(pair, FirstIndex(pair, "=") + 1, Len(pair)) ELSE ""

IsHex(c) == c \in DOMAIN HexValues

\* percent-decoding; a % that starts no escape is kept as it is
RECURSIVE decodeURIComponent(_)
decodeURIComponent(s) ==
    IF s = "" THEN ""
    ELSE IF /\ CharAt(s, 1) = "%"
            /\ Len(s) >= 3
            /\ IsHex(CharAt(s, 2))
            /\ IsHex(CharAt(s, 3))
         THEN CharOfCode(HexValue(CharAt(s, 2)) * 16 + HexValue(CharAt(s, 3)))
                 \o decodeURIComponent(SubSeq(s, 4, Len(s)))
         ELSE CharAt(s, 1) \o decodeURIComponent(SubSeq(s, 2, Len(s)))

IsScalar(v) == v.t \in {"str", "num", "bool"}
IsEmptyArr(v) == v.t = "arr" /\ v.items = <<>>

\* the raw key of each entry of the mapping under serialization
RawKeys == [e \in 1..Len(qParams) |-> encodeURIComponent(qParams[e][1])]

\* the pairs of the query whose raw key is that of entry e of the mapping
PairsOfEntry(pairs, e) ==
    LET k == RawKeys[e]
        Mine(p) == PairKey(p) \in {k, k \o "[]"}
    IN SelectSeq(pairs, Mine)

\* the pairs of the first n entries of the mapping, entry after entry
RECURSIVE PairsOfEntries(_, _)
PairsOfEntries(pairs, n) ==
    IF n = 0 THEN <<>> ELSE PairsOfEntries(pairs, n - 1) \o PairsOfEntry(pairs, n)

\* the decoded <<key, value>> pairs a mapping stands for
RECURSIVE MeantPairs(_)
MeantPairs(m) ==
    IF m = <<>> THEN <<>>
    ELSE LET k == m[1][1]
             v == m[1][2]
             mine == IF IsNullish(v) THEN <<>>
                     ELSE IF v.t = "arr"
                          THEN [i \in 1..Len(v.items) |-> <<k \o "[]", ToStr(v.items[i])>>]
                          ELSE <<<<k, ToStr(v)>>>>
         IN mine \o MeantPairs(Tail(m))

-----------------------------------------------------------------------------
(* Claims about one tool invocation (under Spec) *)

\* the invocation in progress passed, or did not pass, the input contract
Called == tool # "none"
Valid == Called /\ Conforms(Schema(tool), args)
Invalid == Called /\ ~Conforms(Schema(tool), args)

\* the parameters the handler of the invocation in progress received
Params == ParseArgs(Schema(tool), args)

\* C1: whatever fails inside a handler - the awaited request (response error,
\* transport error, any other thrown value) or the handler's own pruning or
\* rendering of a malformed body - the invocation ends with a normal text
\* result holding the Error Translator's string for that failure; nothing
\* unwinds past the handler.
C1_FailuresCaught ==
    (pc = "done" /\ Valid) =>
        /\ result.k = "text"
        /\ outcome.k = "error" => result.text = handleApiError(outcome.error)
        /\ (outcome.k = "data" /\ Body(tool, Params, outcome.data).k = "throw") =>
                result.text = handleApiError(Body(tool, Params, outcome.data).error)

\* a malformed body made the handler's own code raise, and the caller got the
\* translation of that exception as text
C1_Witness ==
    /\ pc = "done"
    /\ tool = "infoplu_get_grid_children"
    /\ outcome = Data(Null)
    /\ result = Text("Error: Cannot read properties of null (reading 'map')")

C3_ExactlyOneRequest ==
    Valid =>
        /\ pc \in {"awaiting", "responded", "done"}
        /\ Len(sent) = 1
        /\ sent[1].method = "GET"
        /\ sent[1] = apiGet(Request(tool, Params))

\* a handler of the territory tools returned after an upstream error, having
\* sent its one request
C3_Witness ==
    /\ pc = "done"
    /\ tool = "infoplu_get_grid_parents"
    /\ outcome.k = "error"
    /\ Len(sent) = 1
    /\ sent[1].url = "/grid/69123/parents"

\* the text names a geometry or bbox field of a JSON object
NamesGeometry(text) == Contains(text, "\"geometry\":") \/ Contains(text, "\"bbox\":")

\* C4: for every tool, response format and upstream response, the text
\* returned to the caller contains no geometry field and no bbox field.
C4_NoGeometryInOutput ==
    (pc = "done" /\ result.k = "text") => ~NamesGeometry(result.text)

\* C5: for every tool and upstream response, the text returned to the caller
\* is at most CHARACTER_LIMIT (25,000) characters long.
C5_OutputWithinLimit ==
    (pc = "done" /\ result.k = "text") => Len(result.text) <= CHARACTER_LIMIT

\* C6: the text returned is the first CHARACTER_LIMIT characters of the
\* untruncated render when that render is longer, and the render itself when
\* it is not.
C6_PlainCut ==
    (pc = "done" /\ Valid /\ outcome.k = "data"
        /\ Body(tool, Params, outcome.data).k = "render") =>
            LET render == Body(tool, Params, outcome.data).text
            IN result.text = IF Len(render) > CHARACTER_LIMIT
                             THEN SubSeq(render, 1, CHARACTER_LIMIT)
                             ELSE render

\* the awaited request was answered with an error status
AnsweredWithStatus(statuses) ==
    /\ outcome.k = "error"
    /\ outcome.error.cls = "AxiosError"
    /\ outcome.error.response # NoResponse
    /\ outcome.error.response.status \in statuses

\* C12: for every tool, an upstream response with status 500, 502 or 503
\* makes the tool return exactly the text "Error: The Geoportail de
\* l'Urbanisme API is temporarily unavailable (status N). Try again later."
\* with N the received status, whatever the response body and whatever the
\* tool's parameters.
C12_UnavailableText ==
    (pc = "done" /\ Valid /\ AnsweredWithStatus({500, 502, 503})) =>
        result = Text("Error: The Geoportail de l'Urbanisme API is temporarily "
                      \o "unavailable (status "
                      \o ToString(outcome.error.response.status)
                      \o "). Try again later.")

\* a location tool got a 502 whose body carries a message of its own
C12_Witness ==
    /\ pc = "done"
    /\ tool = "infoplu_get_sup_at_location"
    /\ AnsweredWithStatus({502})
    /\ outcome.error.response.data = Obj(<<<<"message", Str("down")>>>>)
    /\ result = Text("Error: The Geoportail de l'Urbanisme API is temporarily "
                     \o "unavailable (status 502). Try again later.")

\* C14: a request in flight for the whole 30-second timeout is cancelled: no
\* answer to it is taken after that, the invocation ends with the timeout
\* message as its text result, and the request is not retried - the one
\* request is all the invocation ever sends.
C14_TimeoutEndsCall ==
    (Valid /\ elapsed >= REQUEST_TIMEOUT_MS) =>
        /\ Len(sent) = 1
        /\ pc # "awaiting" => outcome = Failed(TimeoutFailure)
        /\ pc = "done" =>
                result = Text("Error: Request timed out. The API is slow to "
                              \o "respond - try again.")

\* a document search timed out and returned the timeout message
C14_Witness ==
    /\ pc = "done"
    /\ tool = "infoplu_search_documents"
    /\ elapsed >= REQUEST_TIMEOUT_MS
    /\ outcome = Failed(TimeoutFailure)
    /\ Len(sent) = 1
    /\ result = Text(TimeoutText)

\* the tools whose upstream answer is a list of results
ResultSetTools ==
    {"infoplu_search_grids", "infoplu_get_grid_parents", "infoplu_get_grid_children",
     "infoplu_search_documents", "infoplu_list_document_files", "infoplu_search_procedures",
     "infoplu_list_document_models", "infoplu_list_sup_categories",
     "infoplu_list_du_categories"}

\* the text is a rendering of a result set: a JSON value or a markdown heading
RendersResultSet(text) ==
    StartsWith(text, "[") \/ StartsWith(text, "{") \/ StartsWith(text, "#")

\* C18: for every tool that returns a result set, an empty upstream result
\* set makes the tool return its guidance message ("No ... found ...") - not
\* a rendering of the empty set (a heading with a zero count, an empty JSON
\* array) and not an error text.
C18_EmptyResultGuidance ==
    (pc = "done" /\ Valid /\ tool \in ResultSetTools /\ outcome = Data(Arr(<<>>))) =>
        /\ result.k = "text"
        /\ StartsWith(result.text, "No ")
        /\ ~RendersResultSet(result.text)
        /\ ~StartsWith(result.text, "Error: ")

\* the upstream answered a spatial lookup with a collection of no features
NoFeaturesFound ==
    /\ pc = "done"
    /\ Valid
    /\ tool \in FeatureInfoTools
    /\ outcome.k = "data"
    /\ outcome.data \in {RawCollection(0), Obj(<<>>)}

\* C19: for each of the four spatial tools, when the upstream answer has no
\* matching features, the pruned collection has totalFeatures 0 and an empty
\* features sequence - which is what the JSON format returns - and the
\* markdown rendering contains "No features found at this location." and no
\* feature section.
C19_NoFeatures ==
    NoFeaturesFound =>
        LET pruned == pruneFeatureCollection(outcome.data)
        IN /\ Get(pruned, "totalFeatures") = Num(0)
           /\ Get(pruned, "features") = Arr(<<>>)
           /\ result.k = "text"
           /\ IsJson(Params) =>
                /\ result.text = JSONPretty(pruned)
                /\ Contains(result.text, "\"totalFeatures\": 0")
                /\ Contains(result.text, "\"features\": []")
           /\ ~IsJson(Params) =>
                /\ Contains(result.text, "No features found at this location.")
                /\ ~Contains(result.text, "## Feature")
                /\ ~Contains(result.text, "feature(s) found")

\* the lookup by parcel came back empty and said so in markdown
C19_Witness ==
    /\ NoFeaturesFound
    /\ tool = "infoplu_get_features_by_parcel"
    /\ outcome.data = RawCollection(0)
    /\ ~IsJson(Params)
    /\ Contains(result.text, "\n\nNo features found at this location.")

\* the query keys the handler of t sets whatever the caller supplied: paging
\* and field selection, whose parameters have defaults, and the coordinates,
\* which are required
AlwaysSent(t) ==
    CASE t = "infoplu_search_grids" -> {"_limit", "_offset", "_fields"}
      [] t = "infoplu_get_grid" -> {"_fields"}
      [] t \in {"infoplu_search_documents", "infoplu_search_procedures"} -> {"page", "limit"}
      [] t \in {"infoplu_get_du_at_location", "infoplu_get_sup_at_location",
                "infoplu_get_scot_at_location"} -> {"lon", "lat"}
      [] OTHER -> {}

\* the key a pair of a query string is about
QueryKeyOf(pair) ==
    LET k == PairKey(pair)
        n == Len(k)
    IN decodeURIComponent(IF n >= 2 /\ SubSeq(k, n - 1, n) = "[]" THEN SubSeq(k, 1, n - 2)
                          ELSE k)

\* C20: the query mapping a handler builds, and the query string sent for
\* it, has no key for an optional filter the caller did not supply: every key
\* is either one the handler always sends or a filter present in the caller's
\* arguments, sent with the caller's value; the always-sent keys are there
\* whatever the caller supplied.
C20_NoUnsuppliedFilter ==
    (Valid /\ Len(sent) = 1) =>
        LET mapping == Request(tool, Params).params
            pairs == QueryPairs(sent[1].query)
        IN /\ \A i \in 1..Len(mapping) :
                \/ mapping[i][1] \in AlwaysSent(tool)
                \/ /\ HasKey(args, mapping[i][1])
                   /\ mapping[i][2] = Get(args, mapping[i][1])
           /\ \A i \in 1..Len(pairs) :
                QueryKeyOf(pairs[i]) \in AlwaysSent(tool)
                \/ HasKey(args, QueryKeyOf(pairs[i]))
           /\ AlwaysSent(tool) \subseteq {mapping[i][1] : i \in 1..Len(mapping)}
           /\ AlwaysSent(tool) \subseteq {QueryKeyOf(pairs[i]) : i \in 1..Len(pairs)}

\* a territory search by name, type and RNU flag sent those three filters and
\* neither title nor approved
C20_Witness ==
    /\ tool = "infoplu_search_grids"
    /\ Valid
    /\ Len(sent) = 1
    /\ HasKey(args, "name") /\ HasKey(args, "rnu") /\ ~HasKey(args, "title")
    /\ {QueryKeyOf(QueryPairs(sent[1].query)[i]) : i \in 1..Len(QueryPairs(sent[1].query))}
            = {"_limit", "_offset", "_fields", "name", "type", "rnu"}

\* the two tools that take a document id
DocumentIdTools == {"infoplu_get_document_details", "infoplu_list_document_files"}

\* v is a string of exactly 32 characters, each of 0-9 or a-f
IsLowerHex32(v) ==
    /\ v.t = "str"
    /\ Len(v.s) = 32
    /\ \A i \in 1..Len(v.s) :
            CharAt(v.s, i) \in {"0", "1", "2", "3", "4", "5", "6", "7", "8", "9",
                                "a", "b", "c", "d", "e", "f"}

\* C21: the document-details and document-files tools accept a documentId
\* if and only if it is exactly 32 lowercase hexadecimal characters: with such
\* an id (and nothing else wrong) the one request goes to /document/{id}/details
\* or /document/{id}/files; with any other id the call is rejected at
\* parameter validation and no request is issued.
C21_DocumentIdContract ==
    (pc # "idle" /\ tool \in DocumentIdTools) =>
        /\ ~IsLowerHex32(Get(args, "documentId")) =>
                pc = "done" /\ result = InvalidParams /\ sent = <<>>
        /\ (IsLowerHex32(Get(args, "documentId")) /\ KeysOf(args) = {"documentId"}) =>
                /\ result # InvalidParams
                /\ Len(sent) = 1
                /\ sent[1].url = "/document/" \o Get(args, "documentId").s
                        \o (IF tool = "infoplu_get_document_details" THEN "/details"
                            ELSE "/files")

\* an id of 32 hexadecimal characters in upper case was rejected
C21_Witness ==
    /\ pc = "done"
    /\ tool = "infoplu_list_document_files"
    /\ Get(args, "documentId") = Str("0123456789ABCDEF0123456789ABCDEF")
    /\ result = InvalidParams
    /\ sent = <<>>

\* v is a parcel id of the pattern [dept]_[commune]_[prefix]_[section]_[number]:
\* a string of five non-empty parts separated by underscores
IsParcelId(v) ==
    /\ v.t = "str"
    /\ LET parts == SplitOn(v.s, "_")
       IN Len(parts) = 5 /\ \A i \in 1..5 : parts[i] # ""

\* C22: the parcel tool accepts only a parcel id of the pattern
\* [dept]_[commune]_[prefix]_[section]_[number]: a call with any other id is
\* rejected as a parameter-contract violation, before any request to
\* /feature-info/parcel/{parcelId}.
C22_ParcelIdContract ==
    (pc # "idle" /\ tool = "infoplu_get_features_by_parcel"
        /\ ~IsParcelId(Get(args, "parcelId"))) =>
            pc = "done" /\ result = InvalidParams /\ sent = <<>>

\* the tools whose path holds a value of the caller, with what the path holds
\* before and after it
PathPrefix(t) ==
    CASE t \in {"infoplu_get_grid", "infoplu_get_grid_parents", "infoplu_get_grid_children"} ->
            "/grid/"
      [] t = "infoplu_search_procedures" -> "/"
      [] t = "infoplu_get_features_by_parcel" -> "/feature-info/parcel/"

PathSuffix(t) ==
    CASE t = "infoplu_get_grid_parents" -> "/parents"
      [] t = "infoplu_get_grid_children" -> "/children"
      [] t = "infoplu_search_procedures" -> "/procedures"
      [] OTHER -> ""

PathValueTools ==
    {"infoplu_get_grid", "infoplu_get_grid_parents", "infoplu_get_grid_children",
     "infoplu_search_procedures", "infoplu_get_features_by_parcel"}

PathValue ==
    IF tool = "infoplu_get_features_by_parcel" THEN Get(args, "parcelId").s
    ELSE Get(args, "gridName").s

\* C29: for every gridName or parcelId that passes validation, the path
\* requested upstream is the tool's endpoint template with the caller's value
\* as exactly one path segment: it has as many segments as the template, the
\* value is one of them, and it holds neither a query string nor a fragment.
C29_OnePathSegment ==
    (Valid /\ tool \in PathValueTools /\ Len(sent) = 1) =>
        LET template == SplitOn(PathPrefix(tool) \o "{value}" \o PathSuffix(tool), "/")
            segments == SplitOn(sent[1].url, "/")
        IN /\ Len(segments) = Len(template)
           /\ \A i \in 1..Len(template) :
                segments[i] = (IF template[i] = "{value}" THEN PathValue ELSE template[i])
           /\ ~Contains(sent[1].url, "?")
           /\ ~Contains(sent[1].url, "#")

\* the optional filters of the tool invoked: the fields of its schema that
\* are neither paging, format, path values nor the required coordinates
FilterKeys ==
    FieldNames(Schema(tool))
        \ {"limit", "offset", "page", "response_format", "gridName", "documentId",
           "documentModel", "parcelId", "lon", "lat"}

\* the filter k reached the upstream query with the caller's value v
ReachesQuery(k, v) ==
    LET mapping == Request(tool, Params).params
        pairs == QueryPairs(sent[1].query)
        Mine(pair) == QueryKeyOf(pair) = k
        mine == SelectSeq(pairs, Mine)
    IN /\ \E i \in 1..Len(mapping) : mapping[i] = <<k, v>>
       /\ IF v.t = "arr"
          THEN /\ Len(mine) = Len(v.items)
               /\ \A i \in 1..Len(mine) :
                    decodeURIComponent(PairValue(mine[i])) = ToStr(v.items[i])
          ELSE /\ Len(mine) = 1
               /\ decodeURIComponent(PairValue(mine[1])) = ToStr(v)

\* the filter k is nowhere in the upstream query
AbsentFromQuery(k) ==
    /\ \A i \in 1..Len(Request(tool, Params).params) : Request(tool, Params).params[i][1] # k
    /\ \A i \in 1..Len(QueryPairs(sent[1].query)) : QueryKeyOf(QueryPairs(sent[1].query)[i]) # k

\* C30: a supplied optional filter reaches the upstream query if and only if
\* it is a boolean (false as well as true), a non-empty string or a non-empty
\* array; a string filter supplied empty and an array filter supplied empty
\* are absent from the query, as a filter not supplied is.
C30_SuppliedFilters ==
    (Valid /\ Len(sent) = 1) =>
        \A k \in FilterKeys \cap KeysOf(args) :
            LET v == Get(args, k)
            IN IF \/ v.t = "bool"
                  \/ v.t = "str" /\ v.s # ""
                  \/ v.t = "arr" /\ v.items # <<>>
               THEN ReachesQuery(k, v)
               ELSE AbsentFromQuery(k)

\* a territory search with an empty name, a title, an empty type list and
\* approved false sent title=Lyon and approved=false, and neither name nor type
C30_Witness ==
    /\ tool = "infoplu_search_grids"
    /\ Valid
    /\ Len(sent) = 1
    /\ Get(args, "name") = Str("")
    /\ Get(args, "type") = Arr(<<>>)
    /\ Get(args, "approved") = Bool(FALSE)
    /\ Contains(sent[1].query, "&title=Lyon&approved=false")
    /\ AbsentFromQuery("name")
    /\ AbsentFromQuery("type")

-----------------------------------------------------------------------------
(* Claims about the Query Serializer (under SpecSerialize) *)

\* C7: an array value of n elements produces exactly n key[]=value pairs, in
\* the array's order; the pairs follow the mapping's entry order and are
\* joined by single & characters: no pair of the query string is empty.
C7_ArrayPairsInOrder ==
    qOut.done =>
        LET pairs == QueryPairs(qOut.query)
        IN /\ \A i \in 1..Len(pairs) : pairs[i] # "" /\ Contains(pairs[i], "=")
           /\ \A e \in 1..Len(qParams) :
                qParams[e][2].t = "arr" =>
                    LET items == qParams[e][2].items
                        mine == PairsOfEntry(pairs, e)
                    IN /\ Len(mine) = Len(items)
                       /\ \A i \in 1..Len(mine) :
                            /\ PairKey(mine[i]) = encodeURIComponent(qParams[e][1]) \o "[]"
                            /\ decodeURIComponent(PairValue(mine[i])) = ToStr(items[i])
           /\ pairs = PairsOfEntries(pairs, Len(qParams))

C7_Witness ==
    /\ qOut.done
    /\ Len(qParams) = 2
    /\ \E e \in 1..2 : qParams[e][2].t = "arr" /\ Len(qParams[e][2].items) >= 2
    /\ \E e \in 1..2 : IsScalar(qParams[e][2])

\* C8: an entry produces no pair exactly when its value is undefined, null
\* or an empty array; a scalar entry (false, 0 and "" included) produces
\* exactly one key=value pair.
C8_OmissionAndScalars ==
    qOut.done =>
        LET pairs == QueryPairs(qOut.query)
        IN \A e \in 1..Len(qParams) :
             LET v == qParams[e][2]
                 mine == PairsOfEntry(pairs, e)
             IN /\ (Len(mine) = 0) <=> (IsNullish(v) \/ IsEmptyArr(v))
                /\ IsScalar(v) =>
                     /\ Len(mine) = 1
                     /\ PairKey(mine[1]) = encodeURIComponent(qParams[e][1])
                     /\ decodeURIComponent(PairValue(mine[1])) = ToStr(v)

C8_Witness ==
    /\ qOut.done
    /\ Len(qParams) = 2
    /\ \E e \in 1..2 : qParams[e][2] \in {Bool(FALSE), Num(0), Str("")}
    /\ \E e \in 1..2 : IsNullish(qParams[e][2]) \/ IsEmptyArr(qParams[e][2])
    /\ Len(QueryPairs(qOut.query)) = 1

\* C9: splitting the query string on & and = and percent-decoding each part
\* gives back every key (with [] appended for an array entry) and the text of
\* every value, reserved characters included.
C9_RoundTrip ==
    qOut.done =>
        LET pairs == QueryPairs(qOut.query)
        IN [i \in 1..Len(pairs) |->
               <<decodeURIComponent(PairKey(pairs[i])), decodeURIComponent(PairValue(pairs[i]))>>]
           = MeantPairs(qParams)

C9_Witness ==
    /\ qOut.done
    /\ \E e \in 1..Len(qParams) :
         /\ qParams[e][1] = "k&=[]"
         /\ qParams[e][2] = Str("a=c [d]%+")
    /\ \E e \in 1..Len(qParams) :
         /\ qParams[e][2].t = "arr"
         /\ \E i \in 1..Len(qParams[e][2].items) : qParams[e][2].items[i] = Str("x&y")

-----------------------------------------------------------------------------
(* Claims about the Error Translator (under SpecTranslate) *)

\* C10: whatever was thrown, the string the Error Translator returns begins
\* with "Error: ".
C10_ErrorPrefix == eOut.done => StartsWith(eOut.text, "Error: ")

C10_Witness ==
    /\ eOut.done
    /\ eFailure.cls = "value"
    /\ StartsWith(eOut.text, "Error: ")

\* the failure under translation carries a response
HasResponse == eFailure.cls = "AxiosError" /\ eFailure.response # NoResponse

\* the failure under translation is a transport failure: an AxiosError without a response
IsTransport == eFailure.cls = "AxiosError" /\ eFailure.response = NoResponse

\* C11: a response with status 404 gives a message containing "not found",
\* one with status 429 a message containing "Rate limit", and a
\* connection-refused or host-not-found transport failure without a response
\* a message containing "Cannot reach".
C11_ErrorCategories ==
    eOut.done =>
        /\ (HasResponse /\ eFailure.response.status = 404) => Contains(eOut.text, "not found")
        /\ (HasResponse /\ eFailure.response.status = 429) => Contains(eOut.text, "Rate limit")
        /\ (IsTransport /\ eFailure.code \in {"ECONNREFUSED", "ENOTFOUND"}) =>
                Contains(eOut.text, "Cannot reach")

\* a 404 whose body carries a message of its own was translated
C11_Witness ==
    /\ eOut.done
    /\ HasResponse
    /\ eFailure.response.status = 404
    /\ eFailure.response.data = Obj(<<<<"message", Str("bad filter")>>>>)
    /\ Contains(eOut.text, "not found")

\* the statuses the switch has an arm for
KnownStatuses == {400, 404, 429, 500, 502, 503}

\* C13: the Error Translator applies its rows in priority order: a failure
\* with a response is classified by its status alone, whatever transport code
\* and message it also carries; a status outside KnownStatuses gives
\* "API request failed with status N. " followed by the body's message (the
\* status text, then nothing, when the body has none); a failure matching no
\* response row and no transport row gives the stringified underlying error.
C13_PriorityOrder ==
    eOut.done =>
        /\ HasResponse =>
                eOut.text = handleApiError(AxiosError("ERR_BAD_RESPONSE", "", eFailure.response))
        /\ (HasResponse /\ eFailure.response.status \notin KnownStatuses) =>
                LET body == eFailure.response.data
                    said == IF body.t = "obj" THEN Get(body, "message") ELSE Undef
                    msg == IF ~IsNullish(said) THEN ToStr(said)
                           ELSE IF ~IsNullish(eFailure.response.statusText)
                           THEN eFailure.response.statusText.s
                           ELSE ""
                IN eOut.text = "Error: API request failed with status "
                                  \o ToString(eFailure.response.status) \o ". " \o msg
        /\ (IsTransport /\ eFailure.code \notin {"ECONNABORTED", "ECONNREFUSED", "ENOTFOUND"}) =>
                eOut.text = "Error: " \o eFailure.message
        /\ eFailure.cls = "Error" => eOut.text = "Error: " \o eFailure.message
        /\ eFailure.cls = "value" => eOut.text = "Error: " \o ToStr(eFailure.v)

\* a response with a status the switch has no arm for, carried by a failure
\* whose code is a transport row's, was translated by its status
C13_Witness ==
    /\ eOut.done
    /\ HasResponse
    /\ eFailure.code = "ECONNREFUSED"
    /\ eFailure.response.status = 418
    /\ eFailure.response.data = Obj(<<<<"message", Str("bad filter")>>>>)
    /\ eOut.text = "Error: API request failed with status 418. bad filter"

-----------------------------------------------------------------------------
(* Claims about the Response Pruner (under SpecPrune) *)

\* every key of a other than those of except is a key of b with the same value
SameExcept(a, b, except) ==
    \A k \in KeysOf(a) \ except : HasKey(b, k) /\ Get(b, k) = Get(a, k)

Pruned(fn) == pOut.done /\ pIn.fn = fn /\ pOut.r.k = "return"

\* C15: the grid prune of a territory has no top-level geometry key; every
\* other key of the input is in the output with the value it had; the output
\* has no key the input lacks.
C15_GridPrune ==
    Pruned("pruneGrid") =>
        LET out == pOut.r.v
        IN /\ out.t = "obj"
           /\ ~HasKey(out, "geometry")
           /\ SameExcept(pIn.raw, out, {"geometry"})
           /\ KeysOf(out) \subseteq KeysOf(pIn.raw)

\* a territory with a geometry, a bbox and a parent lost its geometry only
C15_Witness ==
    /\ Pruned("pruneGrid")
    /\ HasKey(pIn.raw, "geometry")
    /\ KeysOf(pOut.r.v) = {"name", "title", "type", "rnu", "bbox", "parent"}
    /\ Get(pOut.r.v, "parent") = RawGrid(2)

\* C16: the document prune has no top-level bbox key and no geometry key
\* under a nested grid object; every other key of the input - writingMaterials
\* among them - and every other key of the nested grid is in the output with
\* the value it had.
C16_DocPrune ==
    Pruned("pruneDoc") =>
        LET out == pOut.r.v
            gridIn == Get(pIn.raw, "grid")
            gridOut == Get(out, "grid")
        IN /\ ~HasKey(out, "bbox")
           /\ ~HasKey(gridOut, "geometry")
           /\ SameExcept(pIn.raw, out, {"bbox", "grid"})
           /\ HasKey(pIn.raw, "writingMaterials") =>
                Get(out, "writingMaterials") = Get(pIn.raw, "writingMaterials")
           /\ HasKey(pIn.raw, "grid") <=> HasKey(out, "grid")
           /\ IF gridIn.t = "obj"
              THEN gridOut.t = "obj" /\ SameExcept(gridIn, gridOut, {"geometry"})
              ELSE gridOut = gridIn

\* a document with a bbox, writing materials and a territory with a geometry
\* lost the bbox and the territory's geometry, and kept the rest
C16_Witness ==
    /\ Pruned("pruneDoc")
    /\ HasKey(pIn.raw, "bbox")
    /\ HasKey(Get(pIn.raw, "grid"), "geometry")
    /\ HasKey(pIn.raw, "writingMaterials")
    /\ KeysOf(pOut.r.v) = KeysOf(pIn.raw) \ {"bbox"}
    /\ Get(pOut.r.v, "grid") = pruneGrid(RawGrid(1))

\* C17: whenever the feature collection prune returns, totalFeatures of the
\* output is the length of the output features, which is the length of the
\* input features (0 when the input has no features array); the i-th output
\* feature is the prune of the i-th input feature; no output feature has a
\* geometry field.
C17_CollectionPrune ==
    Pruned("pruneFeatureCollection") =>
        LET out == pOut.r.v
            featuresIn == Get(pIn.raw, "features")
            featuresOut == Get(out, "features")
        IN /\ featuresOut.t = "arr"
           /\ Get(out, "totalFeatures") = Num(Len(featuresOut.items))
           /\ Len(featuresOut.items) =
                (IF featuresIn.t = "arr" THEN Len(featuresIn.items) ELSE 0)
           /\ \A i \in 1..Len(featuresOut.items) :
                LET f == featuresOut.items[i]
                    g == featuresIn.items[i]
                IN /\ ~HasKey(f, "geometry")
                   /\ KeysOf(f) \subseteq {"id", "type", "properties"}
                   /\ HasKey(f, "id") <=> Get(g, "id").t # "undef"
                   /\ HasKey(f, "id") => Get(f, "id") = Str(ToStr(Get(g, "id")))
                   /\ Get(f, "properties") =
                        (IF IsNullish(Get(g, "properties")) THEN Obj(<<>>)
                         ELSE Get(g, "properties"))

\* a collection whose own totalFeatures is 99 and whose two features have
\* geometries came back with totalFeatures 2 and the two features in order
C17_Witness ==
    /\ Pruned("pruneFeatureCollection")
    /\ Get(pIn.raw, "totalFeatures") = Num(99)
    /\ Len(Get(pIn.raw, "features").items) = 2
    /\ Get(pIn.raw, "features").items[1] = RawFeature(1)
    /\ Get(Get(pIn.raw, "features").items[2], "id") = Num(7)
    /\ Get(pOut.r.v, "totalFeatures") = Num(2)
    /\ Get(Get(pOut.r.v, "features").items[1], "id") = Str("zone_urba.1")
    /\ Get(Get(pOut.r.v, "features").items[2], "id") = Str("7")

\* C24: each output feature of the feature collection prune has an id if and
\* only if the input feature has one, and it is the input id as text; its
\* type is "Feature"; its properties are the input feature's properties as
\* they are, or the empty map when the input feature has none.
C24_FeaturePrune ==
    Pruned("pruneFeatureCollection") =>
        LET featuresOut == Get(pOut.r.v, "features").items
        IN \A i \in 1..Len(featuresOut) :
            LET f == featuresOut[i]
                g == Get(pIn.raw, "features").items[i]
            IN /\ HasKey(f, "id") <=> HasKey(g, "id")
               /\ HasKey(g, "id") =>
                    Get(f, "id") = Str(CASE Get(g, "id").t = "str" -> Get(g, "id").s
                                         [] Get(g, "id").t = "num" -> ToString(Get(g, "id").n)
                                         [] Get(g, "id").t = "null" -> "null")
               /\ Get(f, "type") = Str("Feature")
               /\ HasKey(f, "properties")
               /\ Get(f, "properties") =
                    (IF HasKey(g, "properties") /\ Get(g, "properties") # Null
                     THEN Get(g, "properties") ELSE Obj(<<>>))

\* a feature with a numeric id and no properties came out with the id as text
\* and an empty properties map, after a feature without id that kept its
\* properties
C24_Witness ==
    /\ Pruned("pruneFeatureCollection")
    /\ Get(pIn.raw, "features").t = "arr"
    /\ Len(Get(pIn.raw, "features").items) = 2
    /\ ~HasKey(Get(pIn.raw, "features").items[1], "id")
    /\ Get(pIn.raw, "features").items[2] = Obj(<< <<"id", Num(7)>>, <<"geometry", Null>> >>)
    /\ Get(pOut.r.v, "features").items[1] =
            Obj(<< <<"type", Str("Feature")>>,
                   <<"properties", Obj(<< <<"libelle", Str("N")>> >>)>> >>)
    /\ Get(pOut.r.v, "features").items[2] =
            Obj(<< <<"id", Str("7")>>, <<"type", Str("Feature")>>, <<"properties", Obj(<<>>)>> >>)

\* the input lacks optional fields: a territory without geometry; a document
\* without bbox, without grid, with a null grid or with a grid without
\* geometry; a collection without a features array or with a feature without
\* id or without properties
LacksOptionalFields ==
    CASE pIn.fn = "pruneGrid" -> ~HasKey(pIn.raw, "geometry")
      [] pIn.fn = "pruneDoc" ->
            \/ ~HasKey(pIn.raw, "bbox")
            \/ ~HasKey(pIn.raw, "grid")
            \/ Get(pIn.raw, "grid") = Null
            \/ Get(pIn.raw, "grid").t = "obj" /\ ~HasKey(Get(pIn.raw, "grid"), "geometry")
      [] pIn.fn = "pruneFeatureCollection" ->
            /\ pIn.raw.t = "obj"
            /\ \/ Get(pIn.raw, "features").t # "arr"
               \/ /\ \A i \in 1..Len(Get(pIn.raw, "features").items) :
                        Get(pIn.raw, "features").items[i].t = "obj"
                  /\ \E i \in 1..Len(Get(pIn.raw, "features").items) :
                        \/ ~HasKey(Get(pIn.raw, "features").items[i], "id")
                        \/ ~HasKey(Get(pIn.raw, "features").items[i], "properties")

\* C25: the three prune functions do not fail on missing optional fields: on
\* such an input each returns a result - an object - and raises nothing.
C25_PruneTotal ==
    (pOut.done /\ LacksOptionalFields) => pOut.r.k = "return" /\ pOut.r.v.t = "obj"

\* the collection prune returned an empty collection for an answer without
\* a features array
C25_Witness ==
    /\ pOut.done
    /\ pIn = [fn |-> "pruneFeatureCollection", raw |-> Obj(<<>>)]
    /\ pOut.r = Returned(pruneFeatureCollection(Obj(<<>>)))
    /\ Get(pOut.r.v, "features") = Arr(<<>>)

-----------------------------------------------------------------------------
(* Claims about the HTTP server (under SpecServer) *)

\* the transport t holds the session id: it initialized that session, and
\* DELETE /mcp has not closed it
LiveSessionOf(t, sid) ==
    /\ transports[t].kind = "streamable"
    /\ transports[t].initialized
    /\ ~transports[t].closed
    /\ Truthy(sid)
    /\ transports[t].sessionId = sid.s

\* C26: a request to /mcp that carries the mcp-session-id of a session that
\* was initialized and that DELETE /mcp has not deleted is handled by the
\* transport that initialized the session, and no server or transport is
\* created for it.
C26_SessionReuse ==
    [][(served'.n # served.n /\ served'.route = "mcp") =>
        \A t \in 1..Len(transports) :
            LiveSessionOf(t, served'.sid) =>
                /\ served'.by = t
                /\ ~served'.created
                /\ transports' = transports]_vars

\* C27: for both session maps, once the response that created a transport
\* has closed, the map holds no entry for that transport, whichever of the
\* session-initialized callback and the close event came first.
C27_NoEntryAfterClose ==
    \A t \in 1..Len(transports) :
        ~transports[t].resOpen =>
            /\ \A id \in DOMAIN streamableSessions : streamableSessions[id] # t
            /\ \A id \in DOMAIN sseTransports : sseTransports[id] # t

\* C28: a POST /message without a sessionId is answered 400, one with a
\* sessionId that is not in the session map - never connected, or already
\* closed - is answered 404, in both cases without any transport being
\* invoked; one with a registered sessionId is handled by the transport
\* registered under that id, the legacy SSE transport that has this id.  The
\* route changes neither map and no transport.
C28_MessageRouting ==
    [][(served'.n # served.n /\ served'.route = "message") =>
        LET sid == served'.sid
        IN /\ (sid = Undef \/ sid = Str("")) =>
                served'.status = 400 /\ served'.by = 0
           /\ (sid \notin {Undef, Str("")} /\ sid.s \notin DOMAIN sseTransports) =>
                served'.status = 404 /\ served'.by = 0
           /\ (sid \notin {Undef, Str("")} /\ sid.s \in DOMAIN sseTransports) =>
                /\ served'.by = sseTransports[sid.s]
                /\ served'.status \notin {400, 404}
                /\ transports[served'.by].kind = "sse"
                /\ transports[served'.by].sessionId = sid.s
                /\ transports[served'.by].resOpen
           /\ UNCHANGED <<transports, streamableSessions, sseTransports>>]_vars

\* a message for an SSE session whose connection had closed was answered 404,
\* while another SSE session was still connected
C28_Witness ==
    /\ served.route = "message"
    /\ served.status = 404
    /\ served.by = 0
    /\ \E t \in 1..Len(transports) :
        /\ transports[t].kind = "sse"
        /\ served.sid = Str(transports[t].sessionId)
        /\ ~transports[t].resOpen
    /\ DOMAIN sseTransports # {}

-----------------------------------------------------------------------------
(* Claims about concurrent invocations (under SpecConcurrent) *)

\* what the call c comes to on its own: its tool, its parameters, its answer
OwnResult(c) == ToolResult(c.tool, ParseArgs(Schema(c.tool), c.args), c.outcome)

\* C23: in every interleaving of the invocations in flight, a step of one
\* invocation leaves every other invocation as it was; the request an
\* invocation issues and the result it returns are those of its own
\* parameters and its own upstream answer; and the configuration of the HTTP
\* client (base URL, timeout) stays what it was at initialization.
C23_Independent ==
    [][/\ client' = client
       /\ client = ClientConfig
       /\ \A i \in 1..Len(calls) :
            calls'[i] # calls[i] => \A j \in 1..Len(calls) : j # i => calls'[j] = calls[j]
       /\ Len(calls') > Len(calls) => \A j \in 1..Len(calls) : calls'[j] = calls[j]
       /\ \A i \in 1..Len(calls') :
            LET c == calls'[i]
            IN /\ c.request.get = HandlerCalls(c.tool, ParseArgs(Schema(c.tool), c.args))
               /\ c.request.baseURL = API_BASE_URL
               /\ c.request.timeout = REQUEST_TIMEOUT_MS
               /\ c.pc = "done" => c.result = OwnResult(c)]_vars

\* two invocations in flight together, the second answered with a timeout:
\* each returned the result of its own answer
C23_Witness ==
    /\ Len(calls) = 2
    /\ calls[1].pc = "done"
    /\ calls[2].pc = "done"
    /\ calls[1].tool = "infoplu_get_grid"
    /\ calls[2].tool = "infoplu_search_procedures"
    /\ calls[1].outcome = Data(RawGrid(1))
    /\ calls[2].outcome = Failed(TimeoutFailure)
    /\ calls[1].result = OwnResult(calls[1])
    /\ calls[2].result = Text(TimeoutText)
    /\ calls[1].result # calls[2].result

====
